---- MODULE Spec2Model ----
(***************************************************************************)
(* Model of the disc-player library core: the IndexedDB stores 'audio'     *)
(* and 'playlists', the playlist graph operations, the track import, the   *)
(* songs-list projection and the long-press drag controller.               *)
(*                                                                         *)
(* Ids.  A playlist id is `pl_${Date.now()}_${random}`: it is fresh at     *)
(* every createPlaylist and its key order follows the creation time, so    *)
(* the model issues 1, 2, 3, ... and idbGetAll('playlists') returns the    *)
(* records in ascending id order.  An id given to an operation is NULL or  *)
(* an id that has been issued (it may have been deleted since): an id that *)
(* will be issued later cannot be named by a caller.                       *)
(* Time.  Date.now() is the variable now; Tick lets time pass, so that     *)
(* several operations may run within one millisecond.                      *)
(* Elements.  An element of the songs list is named by what it shows: its  *)
(* kind, its id and, for a song item, its playlistId.                      *)
(***************************************************************************)
EXTENDS Integers, Sequences, FiniteSets, TLC

VARIABLES
    playlists,   \* object store 'playlists': id -> record
    audio,       \* object store 'audio': track id -> record
    now,         \* Date.now()
    nextPl,      \* number of playlist ids issued so far
    songsList,   \* children of #songs-list, flattened in document order
    lastOp,      \* the call that completed last
    ret,         \* what that call returned
    dragState,   \* the drag controller's dragState object
    timers,      \* the handles of the setTimeout calls that are pending
    listening,   \* document has the mousemove listener maybeStartDrag
    pending,     \* the calls that are awaiting the store
    pointer,     \* the mouse button or finger: down or up, and its press
    presses,     \* number of presses so far
    started,     \* the helper calls started at overlapping times, and the
                 \* stores before the first of them (not in the code)
    session,     \* initDB in this page load: where it is, the database it
                 \* finds, the open and deleteDatabase requests made so far
    objectUrls,  \* the URLs that URL.createObjectURL returned and
                 \* URL.revokeObjectURL has not been given yet
    songCoverObjectUrls,    \* the array of that name, as a set
    currentRecordCoverUrl,  \* the variable of that name
    backgroundImage,  \* recordInner.style.backgroundImage
    settings,         \* object store 'settings': lastCoverUrl, lastPlayedId
    currentAudio,     \* currentAudio.src
    dialog,           \* the .edit-dialog of ContextMenu.showEditDialog
    aiGenerationState,  \* the object of that name: isGenerating,
                        \* abortController, timeoutId
    aiControls,       \* generateButton.disabled, aiOverlay is active,
                      \* aiCancelButton is visible
    generations       \* the click handlers of generateButton that have
                      \* passed the checks, in the order of the clicks

storeVars == <<playlists, audio, now, nextPl, songsList, lastOp, ret>>
dragVars == <<dragState, timers, listening, pending, pointer, presses, started,
              session>>
listUrlVars == <<objectUrls, songCoverObjectUrls>>
recordVars == <<currentRecordCoverUrl, backgroundImage, settings, currentAudio,
                dialog>>
urlVars == <<listUrlVars, recordVars>>
aiVars == <<aiGenerationState, aiControls, generations>>
vars == <<storeVars, dragVars, urlVars, aiVars>>

\* ---------------------------------------------------------------- bounds
\* playlists created in a run of Spec, of SpecMove, of SpecCover
MaxPlaylists == 2
MaxMovePlaylists == 3
MaxCoverPlaylists == 2
\* the last millisecond of a run
MaxTime == 2

\* ------------------------------------------------------------- constants
NULL == 0

IssuedIds == 1..nextPl

\* cover blobs (0 is "no cover") and gradient descriptor strings
Blobs == {1, 2}
Gradients == {1, 2}

\* ------------------------------------------------------- sequence helpers
Min(S) == CHOOSE x \in S : \A y \in S : x <= y

RECURSIVE SetToSeq(_)
SetToSeq(S) ==
    IF S = {} THEN <<>> ELSE LET m == Min(S) IN <<m>> \o SetToSeq(S \ {m})

\* r with the key k removed
Without(f, k) == [x \in (DOMAIN f) \ {k} |-> f[x]]

\* f with f[k] = v, k added when missing (IDBObjectStore.put)
Put(f, k, v) == [x \in (DOMAIN f) \cup {k} |-> IF x = k THEN v ELSE f[x]]

RECURSIVE FilterSeq(_, _)
FilterSeq(s, S) ==
    IF s = <<>> THEN <<>>
    ELSE (IF Head(s) \in S THEN <<Head(s)>> ELSE <<>>) \o FilterSeq(Tail(s), S)

\* ------------------------------------------------------------ the stores
\* idbGetAll: the records in key order
IdbGetAll(store) == SetToSeq(DOMAIN store)

\* idbGet: the record, or null
IdbHas(store, key) == key \in DOMAIN store

Result(tag, id) == [tag |-> tag, id |-> id]
RetNull == Result("null", NULL)
RetUndefined == Result("undefined", NULL)

Op(name, a, b, flag) == [op |-> name, a |-> a, b |-> b, flag |-> flag]

\* --------------------------------------------------------------- names
\* A name is either typed text (a sequence of characters) or the generated
\* `Playlist ${n}`.
Text(s) == [kind |-> "text", n |-> 0, text |-> s]
DefaultName(n) == [kind |-> "default", n |-> n, text |-> <<>>]

RECURSIVE TrimLeft(_)
TrimLeft(s) == IF s # <<>> /\ Head(s) = " " THEN TrimLeft(Tail(s)) ELSE s

RECURSIVE TrimRight(_)
TrimRight(s) ==
    IF s # <<>> /\ s[Len(s)] = " " THEN TrimRight(SubSeq(s, 1, Len(s) - 1)) ELSE s

\* String.prototype.trim
Trim(s) == TrimRight(TrimLeft(s))

\* a numbering by the playlists issued so far, which deletions do not lower
GetDefaultPlaylistNameByLastId(pls) ==
    DefaultName((IF DOMAIN pls = {} THEN 0
                 ELSE CHOOSE k \in DOMAIN pls : \A j \in DOMAIN pls : j <= k) + 1)

\* getDefaultPlaylistName
GetDefaultPlaylistName(pls) == DefaultName(Len(IdbGetAll(pls)) + 1)

\* ------------------------------------------------------------ renderSongs
\* The tracks that renderSongs gives a gradient: no cover and no gradient.
NeedGradient(au) == {s \in DOMAIN au : au[s].cover = NULL /\ au[s].gradient = NULL}

\* One generateRandomGradient() result for each such track.
GradientChoices(au) == [NeedGradient(au) -> Gradients]

\* renderSongs, "Ensure gradients for songs": the audio store afterwards
EnsureGradients(au, g) ==
    [s \in DOMAIN au |->
        IF s \in NeedGradient(au) THEN [au[s] EXCEPT !.gradient = g[s]] ELSE au[s]]

\* (b.createdAt || 0) - (a.createdAt || 0) > 0: b goes before a
ComesBeforeOldestFirst(b, a, store) == store[b].createdAt < store[a].createdAt

ComesBefore(b, a, store) == store[b].createdAt > store[a].createdAt

\* one step of the stable sort: x goes behind every element that does not
\* have to come after it
RECURSIVE InsertSorted(_, _, _)
InsertSorted(sorted, x, store) ==
    IF sorted = <<>> THEN <<x>>
    ELSE IF ComesBefore(x, Head(sorted), store) THEN <<x>> \o sorted
    ELSE <<Head(sorted)>> \o InsertSorted(Tail(sorted), x, store)

RECURSIVE SortFrom(_, _, _)
SortFrom(sorted, rest, store) ==
    IF rest = <<>> THEN sorted
    ELSE SortFrom(InsertSorted(sorted, Head(rest), store), Tail(rest), store)

\* sortByCreatedDesc: Array.prototype.sort (stable) with the comparator above
sortByCreatedDesc(arr, store) == SortFrom(<<>>, arr, store)

\* childrenMap.get(key): the playlists with parentId || 'root' = key, in
\* idbGetAll order (key NULL is 'root')
childrenMap(pls, key) ==
    FilterSeq(IdbGetAll(pls), {p \in DOMAIN pls : pls[p].parentId = key})

\* songsByPlaylist.get(key): the tracks with playlistId || 'root' = key
songsByPlaylist(au, key) ==
    FilterSeq(IdbGetAll(au), {s \in DOMAIN au : au[s].playlistId = key})

\* createSongItem: the .song-item element and its dataset
createSongItem(s, au, container, depth) ==
    [type |-> "song", id |-> s, playlistId |-> au[s].playlistId,
     parent |-> container, depth |-> depth, createdAt |-> au[s].createdAt]

RECURSIVE createPlaylistItem(_, _, _, _)
RECURSIVE RenderPlaylists(_, _, _, _)

\* a playlist item whose content is its songs only
createPlaylistItemSongsOnly(p, depth, au, pls) ==
    LET songs == sortByCreatedDesc(songsByPlaylist(au, p), au)
    IN  <<[type |-> "playlist", id |-> p, playlistId |-> NULL,
           parent |-> pls[p].parentId, depth |-> depth,
           createdAt |-> pls[p].createdAt]>>
        \o [i \in 1..Len(songs) |-> createSongItem(songs[i], au, p, depth + 1)]

\* createPlaylistItem: the .playlist-item element followed by its content,
\* child playlists first, then the songs
createPlaylistItem(p, depth, au, pls) ==
    LET childPlaylists == sortByCreatedDesc(childrenMap(pls, p), pls)
        songs == sortByCreatedDesc(songsByPlaylist(au, p), au)
    IN  <<[type |-> "playlist", id |-> p, playlistId |-> NULL,
           parent |-> pls[p].parentId, depth |-> depth,
           createdAt |-> pls[p].createdAt]>>
        \o RenderPlaylists(childPlaylists, depth + 1, au, pls)
        \o [i \in 1..Len(songs) |-> createSongItem(songs[i], au, p, depth + 1)]

RenderPlaylists(ps, depth, au, pls) ==
    IF ps = <<>> THEN <<>>
    ELSE createPlaylistItem(Head(ps), depth, au, pls)
         \o RenderPlaylists(Tail(ps), depth, au, pls)

\* renderSongs, from "Build tree" on: the new content of #songs-list
RenderList(au, pls) ==
    LET rootPlaylists == sortByCreatedDesc(childrenMap(pls, NULL), pls)
        rootSongs == sortByCreatedDesc(songsByPlaylist(au, NULL), au)
    IN  RenderPlaylists(rootPlaylists, 0, au, pls)
        \o [i \in 1..Len(rootSongs) |-> createSongItem(rootSongs[i], au, NULL, 0)]

\* ------------------------------------------------------- track import
UNKNOWN == <<"U", "N", "K", "N", "O", "W", "N">>
UNNAMED == <<"U", "N", "N", "A", "M", "E", "D">>

\* a || b on strings: null, undefined and '' are falsy
OrElse(a, b) == IF a # <<>> THEN a ELSE b

\* the index of the first / last character of s that is in S, 0 if none
FirstIn(s, S) ==
    IF \E i \in DOMAIN s : s[i] \in S
    THEN Min({i \in DOMAIN s : s[i] \in S}) ELSE 0

LastIn(s, S) ==
    IF \E i \in DOMAIN s : s[i] \in S
    THEN CHOOSE i \in DOMAIN s : s[i] \in S /\ \A j \in DOMAIN s : s[j] \in S => j <= i
    ELSE 0

\* filename.replace(/\.[^/.]+$/, '')
StripExtension(filename) ==
    LET d == LastIn(filename, {"."})
    IN  IF d # 0 /\ d < Len(filename)
           /\ \A i \in (d + 1)..Len(filename) : filename[i] # "/"
        THEN SubSeq(filename, 1, d - 1) ELSE filename

\* nameOnly.match(/^(.*?)\s*-\s*(.*)$/): the trimmed groups, or <<>> twice
DashMatch(nameOnly) ==
    LET d == FirstIn(nameOnly, {"-"})
    IN  IF d = 0 THEN [artist |-> <<>>, title |-> <<>>]
        ELSE [artist |-> Trim(SubSeq(nameOnly, 1, d - 1)),
              title |-> Trim(SubSeq(nameOnly, d + 1, Len(nameOnly)))]

\* nameOnly.match(/^(.*?)\s*(?:\(|\[)([^)\]]+)(?:\)|\])\s*$/)
ParenMatch(nameOnly) ==
    LET t == TrimRight(nameOnly)
        c == Len(t)
        noMatch == [artist |-> <<>>, title |-> <<>>]
    IN  IF c = 0 \/ t[c] \notin {")", "]"} THEN noMatch
        ELSE LET body == SubSeq(t, 1, c - 1)
                 lastClose == LastIn(body, {")", "]"})
                 opens == {i \in DOMAIN body :
                              i > lastClose /\ i < c - 1 /\ body[i] \in {"(", "["}}
             IN  IF opens = {} THEN noMatch
                 ELSE LET o == Min(opens)
                      IN  [artist |-> Trim(SubSeq(body, o + 1, c - 1)),
                           title |-> Trim(SubSeq(body, 1, o - 1))]

deriveMetadataFromFilename(filename) ==
    LET nameOnly == StripExtension(filename)
        dash == DashMatch(nameOnly)
        paren == ParenMatch(nameOnly)
    IN  IF dash.artist # <<>> /\ dash.title # <<>> THEN dash
        ELSE IF paren.artist # <<>> /\ paren.title # <<>> THEN paren
        ELSE [artist |-> <<>>, title |-> Trim(nameOnly)]

\* A file's content is its bytes, named by a number, and what an ID3v2
\* reader finds in them: the TIT2 and TPE1 text and the APIC picture.
\* Two files are byte-identical iff their content is equal.
Content(bytes, size, tit2, tpe1, apic) ==
    [bytes |-> bytes, size |-> size, tit2 |-> tit2, tpe1 |-> tpe1, apic |-> apic]

File(name, content, lastModified) ==
    [name |-> name, content |-> content, lastModified |-> lastModified]

\* file.size
Size(file) == file.content.size

\* the file names of the model, in the order that numbers them
FileNames == << <<"A", " ", "-", " ", "T", ".", "m">>,
                <<"T", " ", "(", "A", ")", ".", "m">>,
                <<"x", ".", "m">> >>

NameIndex(name) == CHOOSE i \in DOMAIN FileNames : FileNames[i] = name

\* computeFileId; hashOk: arrayBuffer() and crypto.subtle.digest() did not
\* throw.  `sha1_${hashHex}` is one id for each content (SHA-1 has no
\* collision among the contents of the model);
\* `${file.name}_${file.size}_${file.lastModified}` is one id for each
\* triple, and none of them is a sha1 id.  The numbers keep the key order of
\* the strings: a name that starts with an upper-case letter sorts before
\* 'sha1_', any other name of the model behind it.
computeFileIdOfNamedContent(file, hashOk) ==
    IF hashOk THEN 1000 + 10 * NameIndex(file.name) + file.content.bytes
    ELSE (IF Head(file.name) \in {"A", "T"} THEN 0 ELSE 2000)
         + 100 * NameIndex(file.name) + 10 * Size(file) + file.lastModified

computeFileId(file, hashOk) ==
    IF hashOk THEN 1000 + file.content.bytes
    ELSE (IF Head(file.name) \in {"A", "T"} THEN 0 ELSE 2000)
         + 100 * NameIndex(file.name) + 10 * Size(file) + file.lastModified

\* the id starts with 'sha1_'
IsSha1Id(id) == id \div 1000 = 1

\* extractMetadata
extractMetadata(file) ==
    [title |-> OrElse(file.content.tit2, UNKNOWN),
     artist |-> OrElse(file.content.tpe1, UNNAMED),
     coverBlob |-> file.content.apic]

NoMetadata == [title |-> <<>>, artist |-> <<>>, author |-> <<>>, thumbnail |-> NULL]

\* processAudioFile up to the record it stores.  thumbOk: the thumbnail
\* proxy answered with resp.ok; g: what generateRandomGradient() returns.
AudioRecord(file, initialMetadata, thumbOk, g, t) ==
    LET extracted == extractMetadata(file)
        filenameMeta == deriveMetadataFromFilename(file.name)
        title == OrElse(initialMetadata.title,
                   OrElse(extracted.title, OrElse(filenameMeta.title, UNKNOWN)))
        artist == OrElse(initialMetadata.artist,
                    OrElse(initialMetadata.author,
                      OrElse(extracted.artist, OrElse(filenameMeta.artist, UNNAMED))))
        coverBlob == IF extracted.coverBlob = NULL /\ initialMetadata.thumbnail # NULL
                        /\ thumbOk
                     THEN initialMetadata.thumbnail ELSE extracted.coverBlob
        gradient == IF coverBlob = NULL THEN g ELSE NULL
    IN  [file |-> file, title |-> title, artist |-> artist,
         cover |-> coverBlob, gradient |-> gradient, createdAt |-> t,
         playlistId |-> NULL]

\* ------------------------------------------------- playlist graph manager
\* Each function is given the stores it reads and the value of Date.now();
\* its value holds the stores it leaves and what it returns.

\* createPlaylist({ name, cover, parentId }) as the n-th call; a missing
\* name is ''
createPlaylist(pls, n, name, cover, parentId, t) ==
    [pls |-> Put(pls, n,
                 [name |-> IF Trim(name) # <<>> THEN Text(Trim(name))
                           ELSE GetDefaultPlaylistName(pls),
                  cover |-> cover, parentId |-> parentId,
                  createdAt |-> t, updatedAt |-> t]),
     ret |-> Result("value", n)]

\* renamePlaylist(id, newName)
renamePlaylist(pls, id, newName, t) ==
    IF ~IdbHas(pls, id) THEN [pls |-> pls, ret |-> RetNull]
    ELSE [pls |-> Put(pls, id,
                      [pls[id] EXCEPT
                          !.name = IF Trim(newName) # <<>> THEN Text(Trim(newName)) ELSE @,
                          !.updatedAt = t]),
          ret |-> Result("value", id)]

\* what updatePlaylist is given: a name ('' when updates has no name) and a
\* cover (NULL when updates has no cover)
Updates(name, cover) == [name |-> name, cover |-> cover]

\* an updatePlaylist that stores the updates whether or not the id is known
updatePlaylistUpsert(pls, id, updates, t) ==
    [pls |-> Put(pls, id,
                 [name |-> IF updates.name # <<>> THEN Text(updates.name)
                           ELSE IF IdbHas(pls, id) THEN pls[id].name ELSE DefaultName(0),
                  cover |-> IF updates.cover # NULL THEN updates.cover
                            ELSE IF IdbHas(pls, id) THEN pls[id].cover ELSE NULL,
                  parentId |-> IF IdbHas(pls, id) THEN pls[id].parentId ELSE NULL,
                  createdAt |-> IF IdbHas(pls, id) THEN pls[id].createdAt ELSE t,
                  updatedAt |-> t]),
     ret |-> Result("value", id)]

\* updatePlaylist(id, updates)
updatePlaylist(pls, id, updates, t) ==
    IF ~IdbHas(pls, id) THEN [pls |-> pls, ret |-> RetNull]
    ELSE [pls |-> Put(pls, id,
                      [pls[id] EXCEPT
                          !.name = IF updates.name # <<>> THEN Text(updates.name) ELSE @,
                          !.cover = IF updates.cover # NULL THEN updates.cover ELSE @,
                          !.updatedAt = t]),
          ret |-> Result("value", id)]

\* movePlaylist, the "Prevent cycles" loop from checkId on: "cycle" when it
\* meets playlistId, "clear" when it runs off a root or a missing record,
\* "diverge" when it has taken more steps than there are playlists
RECURSIVE CycleWalk(_, _, _, _)
CycleWalk(pls, checkId, playlistId, fuel) ==
    IF checkId = NULL THEN "clear"
    ELSE IF checkId = playlistId THEN "cycle"
    ELSE IF fuel = 0 THEN "diverge"
    ELSE CycleWalk(pls, IF IdbHas(pls, checkId) THEN pls[checkId].parentId ELSE NULL,
                   playlistId, fuel - 1)

\* as PreventCycles, looking at newParentId only and not at its ancestors
PreventCyclesParentOnly(pls, playlistId, newParentId) ==
    IF newParentId = playlistId THEN "cycle" ELSE "clear"

PreventCycles(pls, playlistId, newParentId) ==
    CycleWalk(pls, newParentId, playlistId, Cardinality(DOMAIN pls))

\* as movePlaylist, with updatedAt refreshed before the cycle is looked for
movePlaylistTouchFirst(pls, playlistId, newParentId, t) ==
    IF playlistId = newParentId \/ ~IdbHas(pls, playlistId)
    THEN [pls |-> pls, ret |-> RetNull]
    ELSE IF PreventCycles(pls, playlistId, newParentId) = "cycle"
    THEN [pls |-> Put(pls, playlistId, [pls[playlistId] EXCEPT !.updatedAt = t]),
          ret |-> RetNull]
    ELSE IF PreventCycles(pls, playlistId, newParentId) = "diverge"
    THEN [pls |-> pls, ret |-> Result("diverge", NULL)]
    ELSE [pls |-> Put(pls, playlistId,
                      [pls[playlistId] EXCEPT !.parentId = newParentId,
                                              !.updatedAt = t]),
          ret |-> Result("value", playlistId)]

\* as movePlaylist, leaving the playlists inside the moved one where it
\* was: they are given its former parentId
movePlaylistAlone(pls, playlistId, newParentId, t) ==
    IF playlistId = newParentId \/ ~IdbHas(pls, playlistId)
    THEN [pls |-> pls, ret |-> RetNull]
    ELSE IF PreventCycles(pls, playlistId, newParentId) = "cycle"
    THEN [pls |-> pls, ret |-> RetNull]
    ELSE IF PreventCycles(pls, playlistId, newParentId) = "diverge"
    THEN [pls |-> pls, ret |-> Result("diverge", NULL)]
    ELSE [pls |-> [p \in DOMAIN pls |->
                     IF p = playlistId
                     THEN [pls[p] EXCEPT !.parentId = newParentId, !.updatedAt = t]
                     ELSE IF pls[p].parentId = playlistId
                     THEN [pls[p] EXCEPT !.parentId = pls[playlistId].parentId]
                     ELSE pls[p]],
          ret |-> Result("value", playlistId)]

\* movePlaylist(playlistId, newParentId); ret.tag "diverge": the loop never
\* ends and the call never returns
movePlaylist(pls, playlistId, newParentId, t) ==
    IF playlistId = newParentId \/ ~IdbHas(pls, playlistId)
    THEN [pls |-> pls, ret |-> RetNull]
    ELSE IF PreventCycles(pls, playlistId, newParentId) = "cycle"
    THEN [pls |-> pls, ret |-> RetNull]
    ELSE IF PreventCycles(pls, playlistId, newParentId) = "diverge"
    THEN [pls |-> pls, ret |-> Result("diverge", NULL)]
    ELSE [pls |-> Put(pls, playlistId,
                      [pls[playlistId] EXCEPT !.parentId = newParentId,
                                              !.updatedAt = t]),
          ret |-> Result("value", playlistId)]

\* as moveSongToPlaylist, taking the song's cover whenever it has one
moveSongToPlaylistResync(au, pls, songId, targetPlaylistId, t) ==
    IF \/ ~IdbHas(au, songId)
       \/ (targetPlaylistId # NULL /\ ~IdbHas(pls, targetPlaylistId))
    THEN [au |-> au, pls |-> pls, ret |-> RetNull]
    ELSE [au |-> Put(au, songId, [au[songId] EXCEPT !.playlistId = targetPlaylistId]),
          pls |-> IF targetPlaylistId # NULL /\ au[songId].cover # NULL
                  THEN Put(pls, targetPlaylistId,
                           [pls[targetPlaylistId] EXCEPT
                               !.cover = au[songId].cover, !.updatedAt = t])
                  ELSE pls,
          ret |-> Result("value", songId)]

\* moveSongToPlaylist(songId, targetPlaylistId)
moveSongToPlaylist(au, pls, songId, targetPlaylistId, t) ==
    IF \/ ~IdbHas(au, songId)
       \/ (targetPlaylistId # NULL /\ ~IdbHas(pls, targetPlaylistId))
    THEN [au |-> au, pls |-> pls, ret |-> RetNull]
    ELSE [au |-> Put(au, songId, [au[songId] EXCEPT !.playlistId = targetPlaylistId]),
          pls |-> IF /\ targetPlaylistId # NULL
                     /\ pls[targetPlaylistId].cover = NULL
                     /\ au[songId].cover # NULL
                  THEN Put(pls, targetPlaylistId,
                           [pls[targetPlaylistId] EXCEPT
                               !.cover = au[songId].cover, !.updatedAt = t])
                  ELSE pls,
          ret |-> Result("value", songId)]

\* as deletePlaylist, with the child playlists put at the root
deletePlaylistToRoot(au, pls, id, deleteSongs, t) ==
    LET inside == {s \in DOMAIN au : au[s].playlistId = id}
        reparented == [p \in DOMAIN pls |->
                         IF pls[p].parentId = id
                         THEN [pls[p] EXCEPT !.parentId = NULL, !.updatedAt = t]
                         ELSE pls[p]]
    IN  [au |-> IF deleteSongs
                THEN [s \in (DOMAIN au) \ inside |-> au[s]]
                ELSE [s \in DOMAIN au |->
                        IF s \in inside THEN [au[s] EXCEPT !.playlistId = NULL]
                        ELSE au[s]],
         pls |-> Without(reparented, id),
         ret |-> RetUndefined]

\* as deletePlaylist, deleting the tracks of the child playlists as well
deletePlaylistCascade(au, pls, id, deleteSongs, t) ==
    LET inside == {s \in DOMAIN au : au[s].playlistId = id}
        below == {s \in DOMAIN au :
                    au[s].playlistId \in DOMAIN pls /\ pls[au[s].playlistId].parentId = id}
        newParentId == IF IdbHas(pls, id) THEN pls[id].parentId ELSE NULL
        reparented == [p \in DOMAIN pls |->
                         IF pls[p].parentId = id
                         THEN [pls[p] EXCEPT !.parentId = newParentId, !.updatedAt = t]
                         ELSE pls[p]]
    IN  [au |-> IF deleteSongs
                THEN [s \in (DOMAIN au) \ (inside \cup below) |-> au[s]]
                ELSE [s \in DOMAIN au |->
                        IF s \in inside THEN [au[s] EXCEPT !.playlistId = NULL]
                        ELSE au[s]],
         pls |-> Without(reparented, id),
         ret |-> RetUndefined]

\* deletePlaylist(id, { deleteSongs })
deletePlaylist(au, pls, id, deleteSongs, t) ==
    LET inside == {s \in DOMAIN au : au[s].playlistId = id}
        newParentId == IF IdbHas(pls, id) THEN pls[id].parentId ELSE NULL
        reparented == [p \in DOMAIN pls |->
                         IF pls[p].parentId = id
                         THEN [pls[p] EXCEPT !.parentId = newParentId, !.updatedAt = t]
                         ELSE pls[p]]
    IN  [au |-> IF deleteSongs
                THEN [s \in (DOMAIN au) \ inside |-> au[s]]
                ELSE [s \in DOMAIN au |->
                        IF s \in inside THEN [au[s] EXCEPT !.playlistId = NULL]
                        ELSE au[s]],
         pls |-> Without(reparented, id),
         ret |-> RetUndefined]

RECURSIVE CleanupPassChildless(_, _, _, _)
RECURSIVE CleanupPass(_, _, _, _)

\* a pass that deletes every playlist without child playlists, whether or
\* not it has tracks
CleanupPassChildless(rest, toDelete, au, pls) ==
    IF rest = <<>> THEN toDelete
    ELSE LET p == Head(rest)
             childCount == Cardinality({c \in (DOMAIN pls) \ toDelete :
                                           pls[c].parentId = p})
         IN  CleanupPassChildless(Tail(rest),
                                  IF p \notin toDelete /\ childCount = 0
                                  THEN toDelete \cup {p} ELSE toDelete,
                                  au, pls)

\* cleanupEmptyPlaylists, the for loop over playlists inside while (true):
\* the ids in toDelete after the pass
CleanupPass(rest, toDelete, au, pls) ==
    IF rest = <<>> THEN toDelete
    ELSE LET p == Head(rest)
             songCount == Cardinality({s \in DOMAIN au : au[s].playlistId = p})
             childCount == Cardinality({c \in (DOMAIN pls) \ toDelete :
                                           pls[c].parentId = p})
         IN  CleanupPass(Tail(rest),
                         IF p \notin toDelete /\ songCount = 0 /\ childCount = 0
                         THEN toDelete \cup {p} ELSE toDelete,
                         au, pls)

\* cleanupEmptyPlaylists() up to its renderSongs(): one pass, the deletions,
\* then break
cleanupEmptyPlaylists(au, pls) ==
    [p \in (DOMAIN pls) \ CleanupPass(IdbGetAll(pls), {}, au, pls) |-> pls[p]]

\* --------------------------------------------------------- object URLs
\* A URL string is told by how it starts: 'blob:' for what
\* URL.createObjectURL returns, 'linear-gradient' for what
\* generateRandomGradient returns.  A blob URL is named by the place in the
\* code that created it ("list", "record", "audio", "preview", "existing",
\* "new", "saved") and a number, a gradient by its number.  NoUrl is null.
BlobUrl(what, n) == [scheme |-> "blob:", what |-> what, n |-> n]
GradientUrl(g) == [scheme |-> "linear-gradient", what |-> "", n |-> g]
NoUrl == [scheme |-> "null", what |-> "", n |-> 0]

\* url.startsWith(prefix)
StartsWith(url, prefix) == url.scheme = prefix

\* the store 'settings' when nothing has been saved
NoSettings == [lastCoverUrl |-> NoUrl, lastPlayedId |-> NULL]

\* no edit dialog is in the document
NoDialog ==
    [open |-> FALSE, id |-> NULL, songData |-> NULL, previewUrl |-> NoUrl,
     existingCoverUrl |-> NoUrl, newCoverUrl |-> NoUrl, file |-> NULL]

\* the URLs that the record, the audio element, the settings and the edit
\* dialog hold
HeldBy(recordCover, image, setting, src, dlg) ==
    {recordCover, image, setting, src,
     dlg.previewUrl, dlg.existingCoverUrl, dlg.newCoverUrl}

\* URL.createObjectURL called k times at the place `what`: k URLs that
\* differ from each other and from every URL in `used`, the URLs that are
\* live or that something still holds.  They get the least numbers free at
\* that place: a URL that is revoked and held by nothing is not told from
\* one that was never returned.
createObjectURLs(k, used, what) ==
    LET taken == {u.n : u \in {v \in used : StartsWith(v, "blob:") /\ v.what = what}}
        free == (1..(Cardinality(taken) + k)) \ taken
    IN  {BlobUrl(what, n) :
            n \in {m \in free : Cardinality({j \in free : j < m}) < k}}

\* URL.createObjectURL called once
createObjectURL(used, what) == CHOOSE u \in createObjectURLs(1, used, what) : TRUE

\* the elements of the list that createSongItem and createPlaylistItem call
\* URL.createObjectURL for: the cover of the record is a Blob
WithCover(list, au, pls) ==
    {i \in DOMAIN list :
        IF list[i].type = "song" THEN au[list[i].id].cover # NULL
        ELSE pls[list[i].id].cover # NULL}

\* ------------------------------------------------------------- handlers
\* a renderSongs that also pushes the live URLs held outside the list
\* into songCoverObjectUrls
RenderedAfterTracksAll(au, pls, r, op, live, held) ==
    /\ \E g \in GradientChoices(au) :
          LET list == RenderList(EnsureGradients(au, g), pls)
              kept == live \ songCoverObjectUrls
              urls == createObjectURLs(
                         Cardinality(WithCover(list, EnsureGradients(au, g), pls)),
                         kept \cup held, "list")
          IN  /\ audio' = EnsureGradients(au, g)
              /\ songsList' = list
              /\ songCoverObjectUrls' = urls \cup (held \cap kept)
              /\ objectUrls' = kept \cup urls
    /\ playlists' = pls
    /\ ret' = r
    /\ lastOp' = op

\* The end of a handler: renderSongs() on the stores the handler leaves
\* (when it has given some track a gradient, that is written back).
\* clearSongObjectUrls revokes the URLs of the list before, and every cover
\* in the new list gets a URL.  live: the URLs not revoked when renderSongs
\* is called; held: the URLs held outside the list then.
RenderedAfter(au, pls, r, op, live, held) ==
    /\ \E g \in GradientChoices(au) :
          LET list == RenderList(EnsureGradients(au, g), pls)
              kept == live \ songCoverObjectUrls
              urls == createObjectURLs(
                         Cardinality(WithCover(list, EnsureGradients(au, g), pls)),
                         kept \cup held, "list")
          IN  /\ audio' = EnsureGradients(au, g)
              /\ songsList' = list
              /\ songCoverObjectUrls' = urls
              /\ objectUrls' = kept \cup urls
    /\ playlists' = pls
    /\ ret' = r
    /\ lastOp' = op

\* renderSongs() at the end of a handler that creates and revokes no URL
Rendered(au, pls, r, op) ==
    RenderedAfter(au, pls, r, op, objectUrls,
                  HeldBy(currentRecordCoverUrl, backgroundImage, settings.lastCoverUrl,
                         currentAudio, dialog))

\* ensurePlaylistContextMenu, onCreate: createPlaylist, renderSongs
onCreate(parentId) ==
    LET c == createPlaylist(playlists, nextPl + 1, <<>>, NULL, parentId, now)
    IN  /\ nextPl' = nextPl + 1
        /\ Rendered(audio, c.pls, c.ret, Op("onCreate", nextPl + 1, parentId, FALSE))
        /\ UNCHANGED <<now, dragVars, recordVars, aiVars>>

\* onRename: renamePlaylist, renderSongs
onRename(id, name) ==
    LET r == renamePlaylist(playlists, id, name, now)
    IN  /\ Rendered(audio, r.pls, r.ret, Op("onRename", id, NULL, FALSE))
        /\ UNCHANGED <<now, nextPl, dragVars, recordVars, aiVars>>

\* onDelete: deletePlaylist, renderSongs
onDelete(id, deleteSongs) ==
    LET d == deletePlaylist(audio, playlists, id, deleteSongs, now)
    IN  /\ Rendered(d.au, d.pls, d.ret, Op("onDelete", id, NULL, deleteSongs))
        /\ UNCHANGED <<now, nextPl, dragVars, recordVars, aiVars>>

\* onMove: movePlaylist, renderSongs
onMove(id, newParentId) ==
    LET m == movePlaylist(playlists, id, newParentId, now)
    IN  /\ m.ret.tag # "diverge"
        /\ Rendered(audio, m.pls, m.ret, Op("onMove", id, newParentId, FALSE))
        /\ UNCHANGED <<now, nextPl, dragVars, recordVars, aiVars>>

\* PlaylistContextMenu.handleAction(action, playlist) for the menu opened
\* on the header of the playlist id ('edit' opens a dialog and is not
\* here).  keep: the answer to confirm('Delete playlist only and keep
\* songs? ...').
handleAction(action, id, keep) ==
    /\ id \in DOMAIN playlists
    /\ IF action = "new" THEN onCreate(id)
       ELSE IF action = "move-up"
       THEN onMove(id, IF playlists[id].parentId # NULL THEN NULL ELSE NULL)
       ELSE onDelete(id, ~keep)

\* endDrag on a dragged song over a playlist header (targetId) or over the
\* list (NULL): moveSongToPlaylist, then cleanupEmptyPlaylists, which ends
\* in renderSongs
dropSong(songId, targetId) ==
    LET m == moveSongToPlaylist(audio, playlists, songId, targetId, now)
    IN  /\ Rendered(m.au, cleanupEmptyPlaylists(m.au, m.pls), m.ret,
                    Op("dropSong", songId, targetId, FALSE))
        /\ UNCHANGED <<now, nextPl, dragVars, recordVars, aiVars>>

\* cleanupEmptyPlaylists() called by itself
cleanup ==
    /\ Rendered(audio, cleanupEmptyPlaylists(audio, playlists), RetUndefined,
                Op("cleanupEmptyPlaylists", NULL, NULL, FALSE))
    /\ UNCHANGED <<now, nextPl, dragVars, recordVars, aiVars>>

\* renderSongs() called by itself: the songs panel is opened
renderSongs ==
    /\ Rendered(audio, playlists, RetUndefined, Op("renderSongs", NULL, NULL, FALSE))
    /\ UNCHANGED <<now, nextPl, dragVars, recordVars, aiVars>>

\* ContextMenu.showDeleteConfirmation, the confirm button: the track is
\* deleted and the list rendered again
deleteSong(songId) ==
    /\ Rendered(Without(audio, songId), playlists, RetUndefined,
                Op("deleteSong", songId, NULL, FALSE))
    /\ UNCHANGED <<now, nextPl, dragVars, recordVars, aiVars>>

\* what a processAudioFile call was given and met
ImportInput(file, initialMetadata, thumbOk, g, known) ==
    [file |-> file, initialMetadata |-> initialMetadata, thumbOk |-> thumbOk,
     g |-> g, known |-> known]

\* a processAudioFile that keeps the playlistId and the createdAt of a
\* record already stored under the file's id
processAudioFileMerging(file, initialMetadata, hashOk, thumbOk, g) ==
    LET id == computeFileId(file, hashOk)
        record == AudioRecord(file, initialMetadata, thumbOk, g, now)
    IN  /\ Rendered(Put(audio, id,
                        IF IdbHas(audio, id)
                        THEN [record EXCEPT !.playlistId = audio[id].playlistId,
                                            !.createdAt = audio[id].createdAt]
                        ELSE record),
                    playlists, Result("undefined", id),
                    Op("processAudioFile", id,
                       ImportInput(file, initialMetadata, thumbOk, g, IdbHas(audio, id)),
                       hashOk))
        /\ UNCHANGED <<now, nextPl, dragVars, recordVars, aiVars>>

\* processAudioFile(file, initialMetadata): the record is put under the
\* file's id and the list rendered again.  g is what generateRandomGradient()
\* returns.
processAudioFile(file, initialMetadata, hashOk, thumbOk, g) ==
    LET id == computeFileId(file, hashOk)
    IN  /\ Rendered(Put(audio, id, AudioRecord(file, initialMetadata, thumbOk, g, now)),
                    playlists, Result("undefined", id),
                    Op("processAudioFile", id,
                       ImportInput(file, initialMetadata, thumbOk, g, IdbHas(audio, id)),
                       hashOk))
        /\ UNCHANGED <<now, nextPl, dragVars, recordVars, aiVars>>

\* ------------------------- the record, the player and the edit dialog
\* The handlers that show a track on the record with everything they do to
\* the object URLs; processAudioFile above is the same function as far as
\* the stores and the list go.

\* URL.revokeObjectURL(url) when url.startsWith('blob:')
RevokedIfBlob(live, url) == IF StartsWith(url, "blob:") THEN live \ {url} ELSE live

\* an updateRecordAppearance that saves every imageUrl it is given
updateRecordAppearanceSavesAny(imageUrl, stored, g) ==
    IF imageUrl # NoUrl
    THEN [backgroundImage |-> imageUrl, lastCoverUrl |-> imageUrl]
    ELSE IF stored # NoUrl /\ ~StartsWith(stored, "blob:")
    THEN [backgroundImage |-> stored, lastCoverUrl |-> stored]
    ELSE [backgroundImage |-> GradientUrl(g), lastCoverUrl |-> NoUrl]

\* updateRecordAppearance(imageUrl): what the record shows and the setting
\* lastCoverUrl afterwards.  stored: the setting before; g: what
\* generateRandomGradient() returns.
updateRecordAppearance(imageUrl, stored, g) ==
    IF imageUrl # NoUrl
    THEN [backgroundImage |-> imageUrl,
          lastCoverUrl |-> IF ~StartsWith(imageUrl, "blob:") THEN imageUrl ELSE stored]
    ELSE IF stored # NoUrl /\ ~StartsWith(stored, "blob:")
    THEN [backgroundImage |-> stored, lastCoverUrl |-> stored]
    ELSE [backgroundImage |-> GradientUrl(g), lastCoverUrl |-> NoUrl]

\* the end of processAudioFile, processGeneratedMusic and loadSong: the
\* record cover is coverUrl when the track has a cover (live: the URLs not
\* revoked then, coverUrl among them), else the record shows the gradient;
\* setupAudioPlayback gives the new Audio element a URL of the file.
Shown(coverUrl, gradient, live, current, g) ==
    LET shown == updateRecordAppearance(
                    IF coverUrl # NoUrl THEN coverUrl ELSE GradientUrl(gradient),
                    settings.lastCoverUrl, g)
        audioUrl == createObjectURL(
                       live \cup HeldBy(current, shown.backgroundImage,
                                        shown.lastCoverUrl, currentAudio, dialog),
                       "audio")
    IN  [backgroundImage |-> shown.backgroundImage,
         lastCoverUrl |-> shown.lastCoverUrl,
         currentRecordCoverUrl |-> current,
         currentAudio |-> audioUrl,
         objectUrls |-> live \cup {audioUrl}]

\* what Shown leaves in the variables, before renderSongs()
Show(sh, lastPlayedId) ==
    /\ currentRecordCoverUrl' = sh.currentRecordCoverUrl
    /\ backgroundImage' = sh.backgroundImage
    /\ settings' = [lastCoverUrl |-> sh.lastCoverUrl, lastPlayedId |-> lastPlayedId]
    /\ currentAudio' = sh.currentAudio

\* handleDrop: processAudioFile(file) from its first line to its last.  The
\* record cover URL is revoked and forgotten; extractMetadata creates the
\* URL of an embedded picture; the record is put and shown, the file is
\* set up for playback, the list is rendered again.
handleDrop(file, g) ==
    LET id == computeFileId(file, TRUE)
        record == AudioRecord(file, NoMetadata, FALSE, g, now)
        live == RevokedIfBlob(objectUrls, currentRecordCoverUrl)
        coverUrl == IF record.cover = NULL THEN NoUrl
                    ELSE createObjectURL(
                            objectUrls \cup HeldBy(currentRecordCoverUrl, backgroundImage,
                                                   settings.lastCoverUrl, currentAudio,
                                                   dialog),
                            "record")
        sh == Shown(coverUrl, record.gradient,
                    IF coverUrl = NoUrl THEN live ELSE live \cup {coverUrl},
                    coverUrl, g)
    IN  /\ Show(sh, settings.lastPlayedId)
        /\ RenderedAfter(Put(audio, id, record), playlists, Result("undefined", id),
                         Op("processAudioFile", id,
                            ImportInput(file, NoMetadata, FALSE, g, IdbHas(audio, id)),
                            TRUE),
                         sh.objectUrls,
                         HeldBy(sh.currentRecordCoverUrl, sh.backgroundImage,
                                sh.lastCoverUrl, sh.currentAudio, dialog))
        /\ UNCHANGED <<now, nextPl, dragVars, dialog, aiVars>>

\* processGeneratedMusic(file, prompt).  coverImageBlob: the picture the
\* cover service answered with, or NULL; g: generateRandomGradient().
processGeneratedMusic(file, coverImageBlob, g) ==
    LET id == computeFileId(file, TRUE)
        audioRecord == [AudioRecord(file, NoMetadata, FALSE, g, now)
                          EXCEPT !.title = <<"G">>, !.artist = <<"A">>,
                                 !.cover = coverImageBlob, !.gradient = g]
        coverUrl == IF coverImageBlob = NULL THEN NoUrl
                    ELSE createObjectURL(
                            objectUrls \cup HeldBy(currentRecordCoverUrl, backgroundImage,
                                                   settings.lastCoverUrl, currentAudio,
                                                   dialog),
                            "record")
        sh == IF coverUrl = NoUrl
              THEN Shown(NoUrl, g, objectUrls, currentRecordCoverUrl, g)
              ELSE Shown(coverUrl, g,
                         RevokedIfBlob(objectUrls, currentRecordCoverUrl) \cup {coverUrl},
                         coverUrl, g)
    IN  /\ Show(sh, settings.lastPlayedId)
        /\ RenderedAfter(Put(audio, id, audioRecord), playlists, Result("undefined", id),
                         Op("processGeneratedMusic", id, coverImageBlob, FALSE),
                         sh.objectUrls,
                         HeldBy(sh.currentRecordCoverUrl, sh.backgroundImage,
                                sh.lastCoverUrl, sh.currentAudio, dialog))
        /\ UNCHANGED <<now, nextPl, dragVars, dialog>>

\* a click on the song item of track id: loadSong(item).  g: the gradient
\* an older record without cover and gradient is given.
loadSong(id, g) ==
    LET recordItem == audio[id]
        gradient == IF recordItem.gradient = NULL THEN g ELSE recordItem.gradient
        coverUrl == IF recordItem.cover = NULL THEN NoUrl
                    ELSE createObjectURL(
                            objectUrls \cup HeldBy(currentRecordCoverUrl, backgroundImage,
                                                   settings.lastCoverUrl, currentAudio,
                                                   dialog),
                            "record")
        sh == IF coverUrl = NoUrl
              THEN Shown(NoUrl, gradient, objectUrls, currentRecordCoverUrl, g)
              ELSE Shown(coverUrl, gradient,
                         RevokedIfBlob(objectUrls, currentRecordCoverUrl) \cup {coverUrl},
                         coverUrl, g)
    IN  /\ \E i \in DOMAIN songsList :
              songsList[i].type = "song" /\ songsList[i].id = id
        /\ id \in DOMAIN audio
        /\ Show(sh, id)
        /\ audio' = IF recordItem.cover = NULL
                    THEN Put(audio, id, [recordItem EXCEPT !.gradient = gradient])
                    ELSE audio
        /\ objectUrls' = sh.objectUrls
        /\ lastOp' = Op("loadSong", id, NULL, FALSE)
        /\ ret' = RetUndefined
        /\ UNCHANGED <<playlists, now, nextPl, songsList, dragVars,
                       songCoverObjectUrls, dialog, aiVars>>

\* the songs panel is closed: clearSongObjectUrls()
clearSongObjectUrls ==
    /\ objectUrls' = objectUrls \ songCoverObjectUrls
    /\ songCoverObjectUrls' = {}
    /\ lastOp' = Op("clearSongObjectUrls", NULL, NULL, FALSE)
    /\ ret' = RetUndefined
    /\ UNCHANGED <<playlists, audio, now, nextPl, songsList, dragVars, recordVars,
                   aiVars>>

\* ContextMenu.showEditDialog(songData) for the song item of track id: one
\* URL of the cover goes into the markup of the preview, another into
\* existingCoverUrl
showEditDialog(id) ==
    LET songData == audio[id]
        held == HeldBy(currentRecordCoverUrl, backgroundImage, settings.lastCoverUrl,
                       currentAudio, dialog)
        previewUrl == IF songData.cover = NULL THEN NoUrl
                      ELSE createObjectURL(objectUrls \cup held, "preview")
        existingCoverUrl == IF songData.cover = NULL THEN NoUrl
                            ELSE createObjectURL(objectUrls \cup held, "existing")
        urls == {previewUrl, existingCoverUrl} \ {NoUrl}
    IN  /\ ~dialog.open
        /\ \E i \in DOMAIN songsList :
              songsList[i].type = "song" /\ songsList[i].id = id
        /\ id \in DOMAIN audio
        /\ dialog' = [open |-> TRUE, id |-> id, songData |-> songData,
                      previewUrl |-> previewUrl, existingCoverUrl |-> existingCoverUrl,
                      newCoverUrl |-> NoUrl, file |-> NULL]
        /\ objectUrls' = objectUrls \cup urls
        /\ lastOp' = Op("showEditDialog", id, NULL, FALSE)
        /\ ret' = RetUndefined
        /\ UNCHANGED <<playlists, audio, now, nextPl, songsList, dragVars,
                       songCoverObjectUrls, currentRecordCoverUrl, backgroundImage,
                       settings, currentAudio, aiVars>>

\* the change listener of the cover input: a picture file is chosen
coverInputChange(file) ==
    LET live == RevokedIfBlob(objectUrls, dialog.newCoverUrl)
        newCoverUrl == createObjectURL(
                          objectUrls \cup HeldBy(currentRecordCoverUrl, backgroundImage,
                                                 settings.lastCoverUrl, currentAudio,
                                                 dialog),
                          "new")
    IN  /\ dialog.open
        /\ dialog' = [dialog EXCEPT !.newCoverUrl = newCoverUrl, !.file = file,
                                    !.previewUrl = newCoverUrl]
        /\ objectUrls' = live \cup {newCoverUrl}
        /\ lastOp' = Op("coverInputChange", dialog.id, file, FALSE)
        /\ ret' = RetUndefined
        /\ UNCHANGED <<playlists, audio, now, nextPl, songsList, dragVars,
                       songCoverObjectUrls, currentRecordCoverUrl, backgroundImage,
                       settings, currentAudio, aiVars>>

\* cleanup of showEditDialog: the URLs not revoked afterwards
DialogCleanup(live) ==
    RevokedIfBlob(RevokedIfBlob(live, dialog.existingCoverUrl), dialog.newCoverUrl)

\* the Cancel button of the edit dialog
cancelBtn ==
    /\ dialog.open
    /\ objectUrls' = DialogCleanup(objectUrls)
    /\ dialog' = NoDialog
    /\ lastOp' = Op("cancelBtn", dialog.id, NULL, FALSE)
    /\ ret' = RetUndefined
    /\ UNCHANGED <<playlists, audio, now, nextPl, songsList, dragVars,
                   songCoverObjectUrls, currentRecordCoverUrl, backgroundImage,
                   settings, currentAudio, aiVars>>

\* the Save button of the edit dialog, the title and the artist left as
\* they are: the record the dialog was opened with is put, with the chosen
\* cover; the list is rendered again; when the track is the last one
\* played, its cover is shown on the record through a URL that is revoked
\* at once.
saveBtn(g) ==
    LET songData == dialog.songData
        updatedSong == [songData EXCEPT !.title = OrElse(Trim(@), UNKNOWN),
                                        !.artist = OrElse(Trim(@), UNNAMED),
                                        !.cover = IF dialog.file # NULL
                                                  THEN dialog.file ELSE @]
        isCurrent == settings.lastPlayedId = dialog.id /\ updatedSong.cover # NULL
        coverUrl == createObjectURL(
                       objectUrls \cup HeldBy(currentRecordCoverUrl, backgroundImage,
                                              settings.lastCoverUrl, currentAudio,
                                              dialog),
                       "saved")
        shown == IF isCurrent
                 THEN updateRecordAppearance(coverUrl, settings.lastCoverUrl, g)
                 ELSE [backgroundImage |-> backgroundImage,
                       lastCoverUrl |-> settings.lastCoverUrl]
    IN  /\ dialog.open
        /\ backgroundImage' = shown.backgroundImage
        /\ settings' = [settings EXCEPT !.lastCoverUrl = shown.lastCoverUrl]
        /\ dialog' = NoDialog
        /\ RenderedAfter(Put(audio, dialog.id, updatedSong), playlists, RetUndefined,
                         Op("saveBtn", dialog.id, dialog.file, isCurrent),
                         DialogCleanup(objectUrls),
                         HeldBy(currentRecordCoverUrl, shown.backgroundImage,
                                shown.lastCoverUrl, currentAudio, NoDialog))
        /\ UNCHANGED <<now, nextPl, dragVars, currentRecordCoverUrl, currentAudio,
                       aiVars>>

\* ------------------------------------------------- generating music
\* aiGenerationState as the script declares it.  abortController and
\* timeoutId are the number of the handler that made them, or NULL.
IdleGeneration == [isGenerating |-> FALSE, abortController |-> NULL, timeoutId |-> NULL]

\* generateButton is enabled, the overlay is hidden, the cancel button is
\* not visible and no timeout of startProgressTracking is pending
IdleControls == [disabled |-> FALSE, active |-> FALSE, visible |-> FALSE, timeouts |-> {}]

\* a click handler of generateButton that is awaiting pc ("saveApiKey",
\* "fetch", "blob", "process") or has run its finally ("done"); aborted:
\* abort() has been called on the AbortController it made
Generation(pc, aborted) == [pc |-> pc, aborted |-> aborted]

\* the handlers that have a request to /api/generate-music in flight or
\* are in processGeneratedMusic
Generating == {n \in DOMAIN generations : generations[n].pc \in {"fetch", "blob", "process"}}

\* hideAiGenerationOverlay(): the overlay and the pending timeouts
\* afterwards
hideAiGenerationOverlay ==
    [aiControls EXCEPT !.active = FALSE,
                       !.timeouts = @ \ {aiGenerationState.timeoutId}]

\* the finally block of the click handler n
Finally(n) ==
    /\ aiGenerationState' = [aiGenerationState EXCEPT !.isGenerating = FALSE,
                                                      !.timeoutId = NULL]
    /\ aiControls' = [hideAiGenerationOverlay EXCEPT !.disabled = FALSE]
    /\ generations' = [generations EXCEPT ![n].pc = "done"]

\* a click on generateButton (or the submit of the form, or Ctrl+Enter in
\* the prompt, which call generateButton.click()), with or without an API
\* key and a prompt in the inputs: the handler up to `await
\* saveApiKey(apiKey)`
generateButtonClick(apiKey, prompt) ==
    /\ ~aiControls.disabled
    /\ generations' = IF aiGenerationState.isGenerating \/ ~apiKey \/ ~prompt
                      THEN generations
                      ELSE Append(generations, Generation("saveApiKey", FALSE))
    /\ UNCHANGED <<storeVars, dragVars, urlVars, aiGenerationState, aiControls>>

\* saveApiKey has resolved for the handler n: the state is set, the button
\* disabled, the overlay shown, the timeout of the cancel button set, and
\* the request to /api/generate-music made
saveApiKeyResolves(n) ==
    /\ n \in DOMAIN generations
    /\ generations[n].pc = "saveApiKey"
    /\ aiGenerationState' = [isGenerating |-> TRUE, abortController |-> n,
                             timeoutId |-> n]
    /\ aiControls' = [disabled |-> TRUE, active |-> TRUE, visible |-> FALSE,
                      timeouts |-> aiControls.timeouts \cup {n}]
    /\ generations' = [generations EXCEPT ![n].pc = "fetch"]
    /\ UNCHANGED <<storeVars, dragVars, urlVars>>

\* the fetch of the handler n settles: rejected with an AbortError when its
\* signal is aborted, otherwise an answer that is ok or not
fetchSettles(n, ok) ==
    /\ n \in DOMAIN generations
    /\ generations[n].pc = "fetch"
    /\ IF ~generations[n].aborted /\ ok
       THEN /\ generations' = [generations EXCEPT ![n].pc = "blob"]
            /\ UNCHANGED <<aiGenerationState, aiControls>>
       ELSE Finally(n)
    /\ UNCHANGED <<storeVars, dragVars, urlVars>>

\* response.blob() of the handler n settles, and processGeneratedMusic is
\* called
blobSettles(n) ==
    /\ n \in DOMAIN generations
    /\ generations[n].pc = "blob"
    /\ IF ~generations[n].aborted
       THEN /\ generations' = [generations EXCEPT ![n].pc = "process"]
            /\ UNCHANGED <<aiGenerationState, aiControls>>
       ELSE Finally(n)
    /\ UNCHANGED <<storeVars, dragVars, urlVars>>

\* processGeneratedMusic of the handler n resolves, and the handler runs to
\* its end
generated(n, file, coverImageBlob, g) ==
    /\ n \in DOMAIN generations
    /\ generations[n].pc = "process"
    /\ processGeneratedMusic(file, coverImageBlob, g)
    /\ Finally(n)

\* the timeout h of startProgressTracking expires after a minute
cancelTimeout(h) ==
    /\ h \in aiControls.timeouts
    /\ aiControls' = [aiControls EXCEPT !.visible = TRUE, !.timeouts = @ \ {h}]
    /\ UNCHANGED <<storeVars, dragVars, urlVars, aiGenerationState, generations>>

\* a click on the cancel button of the overlay: cancelGeneration()
cancelGeneration ==
    /\ aiControls.active
    /\ aiControls.visible
    /\ generations' = [n \in DOMAIN generations |->
                         IF n = aiGenerationState.abortController
                         THEN [generations[n] EXCEPT !.aborted = TRUE]
                         ELSE generations[n]]
    /\ aiGenerationState' = [aiGenerationState EXCEPT !.isGenerating = FALSE,
                                                      !.timeoutId = NULL]
    /\ aiControls' = [hideAiGenerationOverlay EXCEPT !.disabled = FALSE]
    /\ UNCHANGED <<storeVars, dragVars, urlVars>>

\* ------------------------------------------- the helpers called directly
\* The end of a call of a helper through window.createPlaylist, ...: the
\* stores it leaves; the list is not rendered again.
Called(au, pls, r, op) ==
    /\ audio' = au
    /\ playlists' = pls
    /\ ret' = r
    /\ lastOp' = op
    /\ UNCHANGED <<now, songsList, dragVars, urlVars, aiVars>>

\* createPlaylist({ name, parentId })
callCreatePlaylist(name, parentId) ==
    LET c == createPlaylist(playlists, nextPl + 1, name, NULL, parentId, now)
    IN  /\ nextPl' = nextPl + 1
        /\ Called(audio, c.pls, c.ret, Op("createPlaylist", nextPl + 1, name, FALSE))

\* deletePlaylist(id, { deleteSongs })
callDeletePlaylist(id, deleteSongs) ==
    LET d == deletePlaylist(audio, playlists, id, deleteSongs, now)
    IN  /\ Called(d.au, d.pls, d.ret, Op("deletePlaylist", id, NULL, deleteSongs))
        /\ UNCHANGED nextPl

\* renamePlaylist(id, newName)
callRenamePlaylist(id, newName) ==
    LET r == renamePlaylist(playlists, id, newName, now)
    IN  /\ Called(audio, r.pls, r.ret, Op("renamePlaylist", id, newName, FALSE))
        /\ UNCHANGED nextPl

\* updatePlaylist(id, updates)
callUpdatePlaylist(id, updates) ==
    LET u == updatePlaylist(playlists, id, updates, now)
    IN  /\ Called(audio, u.pls, u.ret, Op("updatePlaylist", id, updates, FALSE))
        /\ UNCHANGED nextPl

\* movePlaylist(playlistId, newParentId)
callMovePlaylist(playlistId, newParentId) ==
    LET m == movePlaylist(playlists, playlistId, newParentId, now)
    IN  /\ m.ret.tag # "diverge"
        /\ Called(audio, m.pls, m.ret, Op("movePlaylist", playlistId, newParentId, FALSE))
        /\ UNCHANGED nextPl

\* moveSongToPlaylist(songId, targetPlaylistId)
callMoveSongToPlaylist(songId, targetPlaylistId) ==
    LET m == moveSongToPlaylist(audio, playlists, songId, targetPlaylistId, now)
    IN  /\ Called(m.au, m.pls, m.ret,
                  Op("moveSongToPlaylist", songId, targetPlaylistId, FALSE))
        /\ UNCHANGED nextPl

\* -------------------------------------------------- the drag controller
\* An element, or what a release is over: a song item, a playlist header
\* (named by its wrapper), the list outside every item, or a place outside
\* the list.  NoElement is null.
Element(type, id, playlistId) == [type |-> type, id |-> id, playlistId |-> playlistId]
NoElement == Element("null", NULL, NULL)
TheList == Element("list", NULL, NULL)
Outside == Element("outside", NULL, NULL)

\* wireDragAndDrop: the elements that renderSongs made draggable
DraggableElements ==
    {Element(songsList[i].type, songsList[i].id, songsList[i].playlistId) :
        i \in DOMAIN songsList}

\* document.elementFromPoint at a release
DropTargets == DraggableElements \cup {TheList, Outside}

\* the initial dragState, and the object that resetDragState() puts in its
\* place: startX and startY are 0, far from every point of the list
resetDragState ==
    [active |-> FALSE, type |-> "null", id |-> NULL, startAtPress |-> FALSE,
     longPressTimer |-> NULL, originEl |-> NoElement]

\* no button is down
PointerUp ==
    [down |-> FALSE, el |-> NoElement, timer |-> NULL, expired |-> FALSE,
     moved |-> FALSE, began |-> FALSE]

\* beginDrag: dragState and the pending timers afterwards
beginDrag(ds, tm) ==
    IF ds.active THEN [dragState |-> ds, timers |-> tm]
    ELSE [dragState |-> [ds EXCEPT !.active = TRUE],
          timers |-> tm \ {ds.longPressTimer}]

\* mousedown or touchstart on a draggable element: startPress.  The new
\* timer's handle is the number of the press.
startPress(el) ==
    /\ ~pointer.down
    /\ el \in DraggableElements
    /\ presses' = presses + 1
    /\ dragState' = [dragState EXCEPT !.startAtPress = TRUE, !.type = el.type,
                                      !.originEl = el, !.id = el.id,
                                      !.longPressTimer = presses + 1]
    /\ timers' = (timers \ {dragState.longPressTimer}) \cup {presses + 1}
    /\ listening' = TRUE
    /\ pointer' = [down |-> TRUE, el |-> el, timer |-> presses + 1,
                   expired |-> FALSE, moved |-> FALSE, began |-> FALSE]
    /\ UNCHANGED <<storeVars, pending, started, session, urlVars, aiVars>>

\* mousemove or touchmove while the button is down, for the first time more
\* than 6 px from the place of the press (far) or not: maybeStartDrag
\* measures from dragState.startX, startY
maybeStartDrag(far) ==
    /\ pointer.down
    /\ ~pointer.moved
    /\ listening
    /\ IF far \/ ~dragState.startAtPress
       THEN LET b == beginDrag(dragState, timers)
            IN  /\ dragState' = b.dragState
                /\ timers' = b.timers
                /\ pointer' = [pointer EXCEPT !.moved = far,
                                              !.began = @ \/ ~dragState.active]
       ELSE /\ pointer' = [pointer EXCEPT !.moved = far]
            /\ UNCHANGED <<dragState, timers>>
    /\ UNCHANGED <<storeVars, listening, pending, presses, started, session, urlVars,
                   aiVars>>

\* a pending timer of startPress expires, 250 ms after it was set
longPressTimer(h) ==
    /\ h \in timers
    /\ LET b == beginDrag(dragState, timers \ {h})
       IN  dragState' = b.dragState /\ timers' = b.timers
    /\ pointer' = IF pointer.down
                  THEN [pointer EXCEPT !.expired = @ \/ pointer.timer = h,
                                       !.began = @ \/ ~dragState.active]
                  ELSE pointer
    /\ UNCHANGED <<storeVars, listening, pending, presses, started, session, urlVars,
                   aiVars>>

\* cancelPress: the pending timers afterwards
cancelPress(ds, tm) == tm \ {ds.longPressTimer}

\* an endDrag call that has reached its first await.  dragged is not read
\* by the code: it records what dragState.id was at the release.
Awaiting(branch, pc, dragged, a, b, parentId) ==
    [branch |-> branch, pc |-> pc, dragged |-> dragged, a |-> a, b |-> b,
     parentId |-> parentId]

\* endDrag, the choice of the branch: the awaiting call, or <<>> when endDrag
\* awaits nothing
endDragBranch(ds, target) ==
    IF ds.type = "song" THEN
        IF target.type = "playlist"
        THEN <<Awaiting("moveSong", "run", ds.id, ds.id, target.id, NULL)>>
        ELSE IF target.type = "song" /\ target # ds.originEl
        THEN <<Awaiting("group", "get", ds.id, NULL, target.id, target.playlistId)>>
        ELSE IF target # Outside
        THEN <<Awaiting("moveSong", "run", ds.id, ds.id, NULL, NULL)>>
        ELSE <<>>
    ELSE IF ds.type = "playlist" THEN
        IF target.type = "playlist" /\ target.id # ds.id
        THEN <<Awaiting("movePlaylist", "run", ds.id, ds.id, target.id, NULL)>>
        ELSE IF target # Outside
        THEN <<Awaiting("movePlaylist", "run", ds.id, ds.id, NULL, NULL)>>
        ELSE <<>>
    ELSE <<>>

\* mouseup or touchend over target: endDrag up to its first await, or to its
\* end when it awaits nothing.  A pointer that has not moved is over the
\* element it went down on, if the list still has it.
endDrag(target) ==
    /\ pointer.down
    /\ target \in IF pointer.moved \/ pointer.el \notin DraggableElements
                  THEN DropTargets ELSE {pointer.el}
    /\ pointer' = PointerUp
    /\ timers' = cancelPress(dragState, timers)
    /\ listening' = FALSE
    /\ IF ~dragState.active
       THEN dragState' = resetDragState /\ UNCHANGED pending
       ELSE LET call == endDragBranch(dragState, target)
            IN  /\ pending' = pending \o call
                /\ dragState' = IF call = <<>> THEN resetDragState
                                ELSE [dragState EXCEPT !.active = FALSE]
    /\ UNCHANGED <<storeVars, presses, started, session, urlVars, aiVars>>

\* endDrag grouping two songs, after `await idbGet('audio', otherSongId)`:
\* dragState.id is read
endDragReadsId(i) ==
    /\ i \in DOMAIN pending
    /\ pending[i].pc = "get"
    /\ pending' = [pending EXCEPT ![i].pc = "run", ![i].a = dragState.id]
    /\ UNCHANGED <<storeVars, dragState, timers, listening, pointer, presses, started,
                   session, urlVars, aiVars>>

\* String.prototype.slice(0, n)
Slice(str, n) == SubSeq(str, 1, IF Len(str) < n THEN Len(str) ELSE n)

\* endDrag from its first await to `finally`: the stores it leaves, the
\* number of playlist ids issued, and whether it has thrown
endDragRun(c, au, pls, n, t) ==
    IF c.branch = "moveSong" THEN
        LET m == moveSongToPlaylist(au, pls, c.a, c.b, t)
        IN  [au |-> m.au, pls |-> cleanupEmptyPlaylists(m.au, m.pls), n |-> n,
             thrown |-> FALSE, diverges |-> FALSE]
    ELSE IF c.branch = "movePlaylist" THEN
        LET m == movePlaylist(pls, c.a, c.b, t)
        IN  [au |-> au, pls |-> cleanupEmptyPlaylists(au, m.pls), n |-> n,
             thrown |-> FALSE, diverges |-> m.ret.tag = "diverge"]
    ELSE IF ~IdbHas(au, c.a) \/ ~IdbHas(au, c.b) THEN
        [au |-> au, pls |-> pls, n |-> n, thrown |-> TRUE, diverges |-> FALSE]
    ELSE
        LET newName == Slice(au[c.a].title, 12) \o <<" ", "+", " ">>
                       \o Slice(au[c.b].title, 12)
            pl == createPlaylist(pls, n + 1, newName, NULL, c.parentId, t)
            m1 == moveSongToPlaylist(au, pl.pls, c.a, n + 1, t)
            m2 == moveSongToPlaylist(m1.au, m1.pls, c.b, n + 1, t)
        IN  [au |-> m2.au, pls |-> cleanupEmptyPlaylists(m2.au, m2.pls), n |-> n + 1,
             thrown |-> FALSE, diverges |-> FALSE]

\* the calls in flight without the i-th
RemoveAt(calls, i) ==
    [j \in 1..(Len(calls) - 1) |-> IF j < i THEN calls[j] ELSE calls[j + 1]]

\* the awaited calls of an endDrag are done: cleanupEmptyPlaylists has
\* rendered the list (unless the grouping threw) and `finally` replaces
\* dragState
endDragSettles(i) ==
    /\ i \in DOMAIN pending
    /\ pending[i].pc = "run"
    /\ LET c == pending[i]
           r == endDragRun(c, audio, playlists, nextPl, now)
       IN  /\ ~r.diverges
           /\ nextPl' = r.n
           /\ IF r.thrown
              THEN /\ lastOp' = Op("endDrag", c.a, c.b, TRUE)
                   /\ ret' = RetUndefined
                   /\ UNCHANGED <<audio, playlists, songsList, listUrlVars>>
              ELSE Rendered(r.au, r.pls, RetUndefined, Op("endDrag", c.a, c.b, FALSE))
    /\ pending' = RemoveAt(pending, i)
    /\ dragState' = resetDragState
    /\ UNCHANGED <<now, timers, listening, pointer, presses, started, session,
                   recordVars, aiVars>>

\* ------------------------------------------- renderSongs in flight
\* renderSongs() up to `await Promise.all([idbGetAll('audio'),
\* idbGetAll('playlists')])`: the URLs of the list are revoked, the list is
\* emptied and the call awaits the store.  No caller waits for it: the end
\* of processAudioFile and the click on songsButton call it without await.
renderSongsClears ==
    /\ objectUrls' = objectUrls \ songCoverObjectUrls
    /\ songCoverObjectUrls' = {}
    /\ songsList' = <<>>
    /\ pending' = Append(pending, Awaiting("renderSongs", "getAll", NULL, NULL, NULL, NULL))
    /\ UNCHANGED <<playlists, audio, now, nextPl, lastOp, ret, dragState, timers,
                   listening, pointer, presses, started, session, recordVars, aiVars>>

\* the two reads of the renderSongs() that has awaited longest resolve (the
\* requests on a store complete in the order they were made): the tracks
\* without cover and gradient get one, and the items are appended to what
\* #songs-list holds by then, every cover with a new URL
renderSongsAppends ==
    /\ pending # <<>>
    /\ Head(pending).branch = "renderSongs"
    /\ \E g \in GradientChoices(audio) :
          LET au == EnsureGradients(audio, g)
              list == RenderList(au, playlists)
              held == HeldBy(currentRecordCoverUrl, backgroundImage,
                             settings.lastCoverUrl, currentAudio, dialog)
              urls == createObjectURLs(Cardinality(WithCover(list, au, playlists)),
                                       objectUrls \cup held, "list")
          IN  /\ audio' = au
              /\ songsList' = songsList \o list
              /\ songCoverObjectUrls' = songCoverObjectUrls \cup urls
              /\ objectUrls' = objectUrls \cup urls
    /\ pending' = Tail(pending)
    /\ lastOp' = Op("renderSongs", NULL, NULL, FALSE)
    /\ ret' = RetUndefined
    /\ UNCHANGED <<playlists, now, nextPl, dragState, timers, listening, pointer,
                   presses, started, session, recordVars, aiVars>>

\* ------------------------------------------------------------- initDB
\* the stores after initDB on a fresh database
EmptyStore == [x \in {} |-> NULL]

\* A page load: initDB() has called indexedDB.open(dbName, 2).  database is
\* what is on disk: "none", "good" (version 2 with the three stores),
\* "stale" (version 2 without one of the stores) or "newer" (a version
\* above 2, which open(dbName, 2) refuses).
Session(pc, database, opens, deletes) ==
    [pc |-> pc, database |-> database, opens |-> opens, deletes |-> deletes]

\* initDB has run to loadInitialSong on a database that has the stores
Ready == Session("ready", "good", 1, 0)

\* request.onerror: the open request failed, for the version or for any
\* failure of the storage; deleteDatabase() is awaited
openFails ==
    /\ session.pc = "open"
    /\ session' = [session EXCEPT !.pc = "delete"]
    /\ UNCHANGED <<storeVars, dragState, timers, listening, pending, pointer,
                   presses, started, urlVars, aiVars>>

\* request.onupgradeneeded when the database is new, then
\* request.onsuccess: with a store missing the connection is closed and
\* deleteDatabase() is awaited, otherwise loadInitialSong is
openSucceeds ==
    /\ session.pc = "open"
    /\ session.database # "newer"
    /\ session' = IF session.database = "stale"
                  THEN [session EXCEPT !.pc = "delete"]
                  ELSE [session EXCEPT !.pc = "ready", !.database = "good"]
    /\ UNCHANGED <<storeVars, dragState, timers, listening, pending, pointer,
                   presses, started, urlVars, aiVars>>

\* deleteDatabase() resolves: every record is gone, and initDB() is called
\* again
deleteSucceeds ==
    /\ session.pc = "delete"
    /\ session' = [session EXCEPT !.pc = "open", !.database = "none",
                                  !.opens = @ + 1, !.deletes = @ + 1]
    /\ playlists' = EmptyStore
    /\ audio' = EmptyStore
    /\ songsList' = <<>>
    /\ lastOp' = Op("deleteDatabase", NULL, NULL, FALSE)
    /\ ret' = RetUndefined
    /\ settings' = NoSettings
    /\ UNCHANGED <<now, nextPl, dragState, timers, listening, pending, pointer,
                   presses, started, listUrlVars, currentRecordCoverUrl,
                   backgroundImage, currentAudio, dialog, aiVars>>

\* deleteDatabase() rejects: the handler's promise rejects and nothing
\* follows
deleteFails ==
    /\ session.pc = "delete"
    /\ session' = [session EXCEPT !.pc = "failed"]
    /\ UNCHANGED <<storeVars, dragState, timers, listening, pending, pointer,
                   presses, started, urlVars, aiVars>>

\* the page is loaded again: the script runs initDB() on what is on disk
reload ==
    /\ session.pc \in {"ready", "failed"}
    /\ session' = Session("open", session.database, 1, 0)
    /\ songsList' = <<>>
    /\ lastOp' = Op("initDB", NULL, NULL, FALSE)
    /\ ret' = RetUndefined
    /\ objectUrls' = {}
    /\ songCoverObjectUrls' = {}
    /\ currentRecordCoverUrl' = NoUrl
    /\ backgroundImage' = NoUrl
    /\ currentAudio' = NoUrl
    /\ dialog' = NoDialog
    /\ UNCHANGED <<playlists, audio, now, nextPl, dragState, timers, listening,
                   pending, pointer, presses, started, settings, aiVars>>

\* ----------------------------------------------------------------- Init
\* the drag controller when the script has loaded
InitDragController ==
    /\ dragState = resetDragState
    /\ timers = {}
    /\ listening = FALSE
    /\ pending = <<>>
    /\ pointer = PointerUp
    /\ presses = 0
    /\ started = [au |-> <<>>, pls |-> <<>>, calls |-> <<>>]
    /\ session = Ready

\* no object URL has been created, the record shows nothing, no setting is
\* stored
InitUrls ==
    /\ objectUrls = {}
    /\ songCoverObjectUrls = {}
    /\ currentRecordCoverUrl = NoUrl
    /\ backgroundImage = NoUrl
    /\ settings = NoSettings
    /\ currentAudio = NoUrl
    /\ dialog = NoDialog

\* no generation has been asked for
InitAi ==
    /\ aiGenerationState = IdleGeneration
    /\ aiControls = IdleControls
    /\ generations = <<>>

Init ==
    /\ playlists = EmptyStore
    /\ audio = EmptyStore
    /\ now = 1
    /\ nextPl = 0
    /\ songsList = <<>>
    /\ lastOp = Op("initDB", NULL, NULL, FALSE)
    /\ ret = RetUndefined
    /\ InitDragController
    /\ InitUrls
    /\ InitAi

\* ------------------------------------ the graph manager, one call at a time
\* Two imported files without an embedded picture; every gradient is the
\* same one; a rename leaves the name blank.  Covers, gradients, names and
\* the clock have specifications of their own.
LibraryFiles ==
    { File(FileNames[3], Content(1, 1, <<"a">>, <<>>, NULL), 1),
      File(FileNames[3], Content(2, 2, <<>>, <<>>, NULL), 1) }

TrackIds == {computeFileId(f, TRUE) : f \in LibraryFiles}

Targets == {NULL} \cup IssuedIds

Import == \E f \in LibraryFiles : processAudioFile(f, NoMetadata, TRUE, FALSE, 1)
Create == nextPl < MaxPlaylists /\ \E parent \in Targets : onCreate(parent)
Rename == \E id \in IssuedIds : onRename(id, <<>>)
MoveP == \E id \in IssuedIds, parent \in Targets : onMove(id, parent)
DeleteP == \E id \in IssuedIds, deleteSongs \in BOOLEAN : onDelete(id, deleteSongs)
DropS == \E s \in TrackIds, target \in Targets : dropSong(s, target)
DeleteS == \E s \in TrackIds : deleteSong(s)

Next ==
    \/ Import
    \/ Create
    \/ Rename
    \/ MoveP
    \/ DeleteP
    \/ DropS
    \/ cleanup
    \/ DeleteS

Spec == Init /\ [][Next]_vars

\* ------------------------------------------- moving playlists, with a clock
\* time passes: it is the last millisecond of the run
Tick ==
    /\ now < MaxTime
    /\ now' = MaxTime
    /\ lastOp' = Op("tick", NULL, NULL, FALSE)
    /\ ret' = RetUndefined
    /\ UNCHANGED <<playlists, audio, nextPl, songsList, dragVars, urlVars, aiVars>>

CreateM == nextPl < MaxMovePlaylists /\ \E parent \in Targets : onCreate(parent)

NextMove ==
    \/ CreateM
    \/ MoveP
    \/ Tick

SpecMove == Init /\ [][NextMove]_vars

\* ------------------------------------------------- covers of playlists
\* three imported files: two with different embedded pictures, one without
CoverFiles ==
    { File(FileNames[3], Content(1, 1, <<>>, <<>>, 1), 1),
      File(FileNames[3], Content(2, 1, <<>>, <<>>, 2), 1),
      File(FileNames[3], Content(3, 1, <<>>, <<>>, NULL), 1) }

CoverTrackIds == {computeFileId(f, TRUE) : f \in CoverFiles}

ImportC == \E f \in CoverFiles : processAudioFile(f, NoMetadata, TRUE, FALSE, 1)
CreateC == nextPl < MaxCoverPlaylists /\ onCreate(NULL)
DropC == \E s \in CoverTrackIds, target \in Targets : dropSong(s, target)

NextCover ==
    \/ ImportC
    \/ CreateC
    \/ DropC

SpecCover == Init /\ [][NextCover]_vars

\* ----------------------------------------------- deleting playlists
\* three playlists may be nested before one of them is deleted
MaxDeletePlaylists == 3

CreateD == nextPl < MaxDeletePlaylists /\ \E parent \in Targets : onCreate(parent)

NextDelete ==
    \/ Import
    \/ CreateD
    \/ DropS
    \/ DeleteP

SpecDelete == Init /\ [][NextDelete]_vars

\* ------------------------------------------------------ importing tracks
\* Two files with the same bytes under different names and modification
\* times; the caller gives no metadata, or a title, an author and a
\* thumbnail URL (the thumbnail proxy answers or does not); hashing fails or
\* not; the clock runs.
ImportFiles ==
    { File(FileNames[1], Content(1, 1, <<>>, <<>>, NULL), 1),
      File(FileNames[3], Content(1, 1, <<>>, <<>>, NULL), 2) }

CallerMetadata ==
    [title |-> <<"t">>, artist |-> <<>>, author |-> <<"u">>, thumbnail |-> 1]

ImportI ==
    \E f \in ImportFiles, im \in {NoMetadata, CallerMetadata},
       hashOk \in BOOLEAN, thumbOk \in BOOLEAN :
        processAudioFile(f, im, hashOk, thumbOk, 1)

NextImport ==
    \/ ImportI
    \/ Tick

SpecImport == Init /\ [][NextImport]_vars

\* ------------------------------------------------------- object URLs
\* A file with an embedded picture and one without are dropped, the
\* generation service answers with a track with or without a picture; song
\* items are clicked, edited and deleted, the panel is opened and closed.
\* The handlers that create a URL run while fewer than MaxLeakedUrls URLs
\* are live that nothing holds.
MaxLeakedUrls == 2

UrlFiles ==
    { File(FileNames[3], Content(1, 1, <<>>, <<>>, 1), 1),
      File(FileNames[3], Content(2, 1, <<>>, <<>>, NULL), 1) }

GeneratedFile == File(FileNames[3], Content(3, 1, <<>>, <<>>, NULL), 1)

\* the live URLs that no variable and no element holds
LeakedUrls ==
    objectUrls \ (songCoverObjectUrls
                  \cup HeldBy(currentRecordCoverUrl, backgroundImage,
                              settings.lastCoverUrl, currentAudio, dialog))

NextUrls ==
    \/ /\ Cardinality(LeakedUrls) < MaxLeakedUrls
       /\ \E f \in UrlFiles, g \in Gradients : handleDrop(f, g)
    \/ /\ Cardinality(LeakedUrls) < MaxLeakedUrls
       /\ \E cover \in {NULL, 2} : processGeneratedMusic(GeneratedFile, cover, 1)
       /\ UNCHANGED aiVars
    \/ /\ Cardinality(LeakedUrls) < MaxLeakedUrls
       /\ \E id \in DOMAIN audio : loadSong(id, 1)
    \/ /\ Cardinality(LeakedUrls) < MaxLeakedUrls
       /\ \E id \in DOMAIN audio : showEditDialog(id)
    \/ coverInputChange(2)
    \/ cancelBtn
    \/ saveBtn(1)
    \/ renderSongs
    \/ clearSongObjectUrls
    \/ \E s \in DOMAIN audio : deleteSong(s)

SpecUrls == Init /\ [][NextUrls]_vars

\* ------------------------------------------------- generating music
\* Generate is clicked up to MaxGenerations times with a key and a prompt
\* in the inputs, at any time at which the button is enabled.
MaxGenerations == 3

NextGenerate ==
    \/ /\ Len(generations) < MaxGenerations
       /\ \E apiKey \in BOOLEAN, prompt \in BOOLEAN : generateButtonClick(apiKey, prompt)
    \/ \E n \in DOMAIN generations : saveApiKeyResolves(n)
    \/ \E n \in DOMAIN generations, ok \in BOOLEAN : fetchSettles(n, ok)
    \/ \E n \in DOMAIN generations : blobSettles(n)
    \/ \E n \in DOMAIN generations, cover \in {NULL, 2} :
          generated(n, GeneratedFile, cover, 1)
    \/ \E h \in aiControls.timeouts : cancelTimeout(h)
    \/ cancelGeneration

SpecGenerate == Init /\ [][NextGenerate]_vars

\* ------------------------------------------------ importing again
\* A file with a picture and a file without are imported, dropped on a
\* playlist made at the root, and imported again, at once or later.
MaxReimportPlaylists == 1

ReimportFiles == {f \in CoverFiles : f.content.apic # 2}

NextReimport ==
    \/ \E f \in ReimportFiles : processAudioFile(f, NoMetadata, TRUE, FALSE, 1)
    \/ nextPl < MaxReimportPlaylists /\ onCreate(NULL)
    \/ \E f \in ReimportFiles, target \in Targets :
          dropSong(computeFileId(f, TRUE), target)
    \/ Tick

SpecReimport == Init /\ [][NextReimport]_vars

\* ------------------------------------- moving playlists that hold tracks
\* The library has MaxSubtreePlaylists playlists at the root and a track
\* in the first of them, all made in the first millisecond.  Later the
\* playlists are moved into each other and out again.
MaxSubtreePlaylists == 3

SubtreeFile == CHOOSE f \in LibraryFiles : f.content.bytes = 1

InitSubtree ==
    /\ playlists = [p \in 1..MaxSubtreePlaylists |->
                      [name |-> DefaultName(p), cover |-> NULL, parentId |-> NULL,
                       createdAt |-> 1, updatedAt |-> 1]]
    /\ audio = Put(EmptyStore, computeFileId(SubtreeFile, TRUE),
                   [AudioRecord(SubtreeFile, NoMetadata, FALSE, 1, 1)
                      EXCEPT !.playlistId = 1])
    /\ songsList = RenderList(audio, playlists)
    /\ now = MaxTime
    /\ nextPl = MaxSubtreePlaylists
    /\ lastOp = Op("renderSongs", NULL, NULL, FALSE)
    /\ ret = RetUndefined
    /\ InitDragController
    /\ InitUrls
    /\ InitAi

NextSubtree == \E id \in IssuedIds, parent \in Targets : onMove(id, parent)

SpecSubtree == InitSubtree /\ [][NextSubtree]_vars

\* ------------------------------------------- the playlist context menu
\* Up to MaxMenuPlaylists playlists are made, at the root or through 'New
\* Playlist Inside', the library files are imported and dropped on them,
\* and the other actions of the menu are used on them.
MaxMenuPlaylists == 3

NextMenu ==
    \/ Import
    \/ DropS
    \/ nextPl < MaxMenuPlaylists /\ onCreate(NULL)
    \/ /\ nextPl < MaxMenuPlaylists
       /\ \E id \in DOMAIN playlists : handleAction("new", id, TRUE)
    \/ \E id \in DOMAIN playlists : handleAction("move-up", id, TRUE)
    \/ \E id \in DOMAIN playlists, keep \in BOOLEAN : handleAction("delete", id, keep)

SpecMenu == Init /\ [][NextMenu]_vars

\* ------------------------------------------------ the songs-list projection
\* The songs panel is opened on a library that earlier sessions left in the
\* database: MaxRenderPlaylists playlists, each created at the root or inside
\* an older one, and three tracks at the root or together in one playlist,
\* all created at any of the times up to MaxRenderTime.  The key of a
\* playlist starts with its creation time, so the later key is not the older
\* playlist; the key of a track is a hash and says nothing of its age.
MaxRenderPlaylists == 3
MaxRenderTime == 3

RenderFiles ==
    { File(FileNames[3], Content(1, 1, <<>>, <<>>, NULL), 1),
      File(FileNames[3], Content(2, 1, <<>>, <<>>, NULL), 1),
      File(FileNames[3], Content(3, 1, <<>>, <<>>, NULL), 1) }

RenderPlaylistIds == 1..MaxRenderPlaylists
RenderTimes == 1..MaxRenderTime

InitRender ==
    /\ \E parent \in [RenderPlaylistIds -> {NULL} \cup RenderPlaylistIds],
          created \in [RenderPlaylistIds -> RenderTimes] :
          /\ \A p \in RenderPlaylistIds : parent[p] < p
          /\ \A p, q \in RenderPlaylistIds : p < q => created[p] <= created[q]
          /\ playlists = [p \in RenderPlaylistIds |->
                            [name |-> DefaultName(p), cover |-> NULL,
                             parentId |-> parent[p],
                             createdAt |-> created[p], updatedAt |-> created[p]]]
    /\ \E place \in {NULL} \cup RenderPlaylistIds, at \in [RenderFiles -> RenderTimes] :
          audio = [s \in {computeFileId(f, TRUE) : f \in RenderFiles} |->
                     LET f == CHOOSE f \in RenderFiles : computeFileId(f, TRUE) = s
                     IN  [AudioRecord(f, NoMetadata, FALSE, 1, at[f])
                            EXCEPT !.playlistId = place]]
    /\ now = MaxRenderTime
    /\ nextPl = MaxRenderPlaylists
    /\ songsList = <<>>
    /\ lastOp = Op("initDB", NULL, NULL, FALSE)
    /\ ret = RetUndefined
    /\ InitDragController
    /\ InitUrls
    /\ InitAi

NextRender == renderSongs

SpecRender == InitRender /\ [][NextRender]_vars

\* -------------------------------------------------- overlapping renders
\* A library of MaxOverlapPlaylists playlists, nested in any way, and the
\* three tracks of RenderFiles, each at the root or in a playlist; the
\* songs panel has not been opened yet.  renderSongs() is called while up
\* to MaxRenders earlier calls await the store.
MaxOverlapPlaylists == 2
MaxRenders == 2

InitOverlap ==
    /\ \E parent \in [1..MaxOverlapPlaylists -> {NULL} \cup (1..MaxOverlapPlaylists)] :
          /\ \A p \in 1..MaxOverlapPlaylists : parent[p] < p
          /\ playlists = [p \in 1..MaxOverlapPlaylists |->
                            [name |-> DefaultName(p), cover |-> NULL,
                             parentId |-> parent[p],
                             createdAt |-> 1, updatedAt |-> 1]]
    /\ \E place \in [RenderFiles -> {NULL} \cup (1..MaxOverlapPlaylists)] :
          audio = [s \in {computeFileId(f, TRUE) : f \in RenderFiles} |->
                     LET f == CHOOSE f \in RenderFiles : computeFileId(f, TRUE) = s
                     IN  [AudioRecord(f, NoMetadata, FALSE, 1, 1)
                            EXCEPT !.playlistId = place[f]]]
    /\ now = 1
    /\ nextPl = MaxOverlapPlaylists
    /\ songsList = <<>>
    /\ lastOp = Op("initDB", NULL, NULL, FALSE)
    /\ ret = RetUndefined
    /\ InitDragController
    /\ InitUrls
    /\ InitAi

NextOverlap ==
    \/ Len(pending) < MaxRenders /\ renderSongsClears
    \/ renderSongsAppends

SpecOverlap == InitOverlap /\ [][NextOverlap]_vars

\* ------------------------------------------- cleaning up a library
\* cleanupEmptyPlaylists() is called on a library that earlier sessions
\* left in the database, the libraries of InitRender: any nesting of the
\* playlists, the tracks at the root or together in any one playlist.
NextCleanup == cleanup

SpecCleanup == InitRender /\ [][NextCleanup]_vars

\* ------------------------------------------------------- playlist names
\* createPlaylist is called with no name, a blank name or a name, and
\* playlists are deleted in between
MaxNamePlaylists == 3

NameInputs == {<<>>, <<" ">>, <<"x">>}

NextNames ==
    \/ /\ nextPl < MaxNamePlaylists
       /\ \E name \in NameInputs, parent \in Targets : callCreatePlaylist(name, parent)
    \/ \E id \in IssuedIds : callDeletePlaylist(id, FALSE)

SpecNames == Init /\ [][NextNames]_vars

\* ------------------------------------------ calls with ids of any kind
\* One of the two library files has been imported, so the other one's id
\* names no track; the helpers are called with ids that were issued and
\* may have been deleted.
MaxCallPlaylists == 2

InitCalls ==
    /\ playlists = EmptyStore
    /\ audio = Put(EmptyStore, 1001,
                   AudioRecord(CHOOSE f \in LibraryFiles : computeFileId(f, TRUE) = 1001,
                               NoMetadata, FALSE, 1, 1))
    /\ songsList = RenderList(audio, playlists)
    /\ now = 1
    /\ nextPl = 0
    /\ lastOp = Op("renderSongs", NULL, NULL, FALSE)
    /\ ret = RetUndefined
    /\ InitDragController
    /\ InitUrls
    /\ InitAi

UpdateInputs == {Updates(<<"x">>, NULL), Updates(<<>>, 1)}

NextCalls ==
    \/ /\ nextPl < MaxCallPlaylists
       /\ \E parent \in Targets : callCreatePlaylist(<<>>, parent)
    \/ \E id \in IssuedIds : callDeletePlaylist(id, FALSE)
    \/ \E id \in IssuedIds : callRenamePlaylist(id, <<"x">>)
    \/ \E id \in IssuedIds, updates \in UpdateInputs : callUpdatePlaylist(id, updates)
    \/ \E id \in IssuedIds, parent \in Targets : callMovePlaylist(id, parent)
    \/ \E s \in TrackIds, target \in Targets : callMoveSongToPlaylist(s, target)

SpecCalls == InitCalls /\ [][NextCalls]_vars

\* ------------------------------------------- the helpers, await by await
\* A call of a helper that is awaiting the store: the function, its
\* arguments (a, b, flag), the request it has issued and awaits (pc) and its
\* local variables.  The calls in flight are kept in the order in which
\* their requests were issued.
\* snap holds the records it has read and changed in memory, by id (song,
\* pl, updated, toReparent), snap2 the target of moveSongToPlaylist,
\* checkId the variable of the cycle walk, todo the ids still to be written
\* by the loop it is in.
InFlight(fn, pc, a, b, flag) ==
    [fn |-> fn, pc |-> pc, a |-> a, b |-> b, flag |-> flag, snap |-> EmptyStore,
     snap2 |-> EmptyStore, checkId |-> NULL, todo |-> <<>>]

\* the object stores a request is on.  Each idbGet, idbGetAll, idbPut and
\* idbDelete is a transaction of its own on one store;
\* cleanupEmptyPlaylists reads both stores at once, renderSongs reads both
\* and may put tracks.
Stores(c) ==
    IF c.fn = "movePlaylist" THEN {"playlists"}
    ELSE IF c.fn = "moveSongToPlaylist"
    THEN (IF c.pc \in {"getSong", "putSong"} THEN {"audio"} ELSE {"playlists"})
    ELSE IF c.fn = "deletePlaylist"
    THEN (IF c.pc \in {"getItems", "songs"} THEN {"audio"} ELSE {"playlists"})
    ELSE IF c.pc = "delete" THEN {"playlists"}
    ELSE {"audio", "playlists"}

\* IndexedDB runs the transactions on one store in the order of their
\* creation (two reads of one store are taken in that order as well): the
\* i-th request can complete when no request issued before it is on a store
\* of its own
Unblocked(i) ==
    /\ i \in DOMAIN pending
    /\ \A j \in 1..(i - 1) : Stores(pending[j]) \cap Stores(pending[i]) = {}

\* the i-th call's request has completed with the stores au, pls, and the
\* call has issued its next request: it awaits as c
Continue(i, c, au, pls) ==
    /\ pending' = Append(RemoveAt(pending, i), c)
    /\ audio' = au
    /\ playlists' = pls
    /\ UNCHANGED <<now, nextPl, songsList, lastOp, ret, dragState, timers,
                   listening, pointer, presses, started, session, urlVars,
                   aiVars>>

\* the i-th call's request has completed with the stores au, pls, and the
\* call returns r
Return(i, r, au, pls) ==
    /\ pending' = RemoveAt(pending, i)
    /\ audio' = au
    /\ playlists' = pls
    /\ ret' = r
    /\ lastOp' = Op(pending[i].fn, pending[i].a, pending[i].b, pending[i].flag)
    /\ UNCHANGED <<now, nextPl, songsList, dragState, timers, listening, pointer,
                   presses, started, session, urlVars, aiVars>>

\* a helper is called: it runs to its first await
startCall(fn, pc, a, b, flag) ==
    /\ started' = [au |-> IF started.calls = <<>> THEN audio ELSE started.au,
                   pls |-> IF started.calls = <<>> THEN playlists ELSE started.pls,
                   calls |-> Append(started.calls, Op(fn, a, b, flag))]
    /\ IF fn = "movePlaylist" /\ a = b
       THEN /\ ret' = RetNull
            /\ lastOp' = Op(fn, a, b, flag)
            /\ UNCHANGED pending
       ELSE /\ pending' = Append(pending, InFlight(fn, pc, a, b, flag))
            /\ UNCHANGED <<ret, lastOp>>
    /\ UNCHANGED <<playlists, audio, now, nextPl, songsList, dragState, timers,
                   listening, pointer, presses, session, urlVars, aiVars>>

\* movePlaylist resumes: after `await idbGet('playlists', playlistId)`,
\* after an `await idbGet('playlists', checkId)` of the cycle walk, after
\* `await idbPut('playlists', pl)`
movePlaylistResumes(i) ==
    LET c == pending[i]
    IN  /\ c.fn = "movePlaylist"
        /\ Unblocked(i)
        /\ IF c.pc = "getPl" THEN
                IF ~IdbHas(playlists, c.a) THEN Return(i, RetNull, audio, playlists)
                ELSE IF c.b # NULL
                THEN Continue(i, [c EXCEPT !.pc = "walk", !.checkId = c.b,
                                           !.snap = Put(EmptyStore, c.a, playlists[c.a])],
                              audio, playlists)
                ELSE Continue(i, [c EXCEPT !.pc = "put",
                                           !.snap = Put(EmptyStore, c.a,
                                                        [playlists[c.a] EXCEPT
                                                            !.parentId = NULL,
                                                            !.updatedAt = now])],
                              audio, playlists)
           ELSE IF c.pc = "walk" THEN
                LET next == IF IdbHas(playlists, c.checkId)
                            THEN playlists[c.checkId].parentId ELSE NULL
                IN  IF next = NULL
                    THEN Continue(i, [c EXCEPT !.pc = "put",
                                               !.snap = Put(EmptyStore, c.a,
                                                            [c.snap[c.a] EXCEPT
                                                                !.parentId = c.b,
                                                                !.updatedAt = now])],
                                  audio, playlists)
                    ELSE IF next = c.a THEN Return(i, RetNull, audio, playlists)
                    ELSE Continue(i, [c EXCEPT !.checkId = next], audio, playlists)
           ELSE Return(i, Result("value", c.a), audio, Put(playlists, c.a, c.snap[c.a]))

\* moveSongToPlaylist resumes: after the get of the song, the get of the
\* target, the put of the target, the put of the song
moveSongToPlaylistResumes(i) ==
    LET c == pending[i]
    IN  /\ c.fn = "moveSongToPlaylist"
        /\ Unblocked(i)
        /\ IF c.pc = "getSong" THEN
                IF ~IdbHas(audio, c.a) THEN Return(i, RetNull, audio, playlists)
                ELSE IF c.b # NULL
                THEN Continue(i, [c EXCEPT !.pc = "getTarget",
                                           !.snap = Put(EmptyStore, c.a, audio[c.a])],
                              audio, playlists)
                ELSE Continue(i, [c EXCEPT !.pc = "putSong",
                                           !.snap = Put(EmptyStore, c.a,
                                                        [audio[c.a] EXCEPT
                                                            !.playlistId = NULL])],
                              audio, playlists)
           ELSE IF c.pc = "getTarget" THEN
                IF ~IdbHas(playlists, c.b) THEN Return(i, RetNull, audio, playlists)
                ELSE LET song == [c.snap[c.a] EXCEPT !.playlistId = c.b]
                         target == playlists[c.b]
                     IN  IF target.cover = NULL /\ song.cover # NULL
                         THEN Continue(i, [c EXCEPT
                                             !.pc = "putTarget",
                                             !.snap = Put(EmptyStore, c.a, song),
                                             !.snap2 = Put(EmptyStore, c.b,
                                                           [target EXCEPT
                                                               !.cover = song.cover,
                                                               !.updatedAt = now])],
                                       audio, playlists)
                         ELSE Continue(i, [c EXCEPT !.pc = "putSong",
                                                    !.snap = Put(EmptyStore, c.a, song)],
                                       audio, playlists)
           ELSE IF c.pc = "putTarget" THEN
                Continue(i, [c EXCEPT !.pc = "putSong"], audio,
                         Put(playlists, c.b, c.snap2[c.b]))
           ELSE Return(i, Result("value", c.a), Put(audio, c.a, c.snap[c.a]), playlists)

\* deletePlaylist resumes: after idbGetAll('audio'), after the idbDelete or
\* idbPut of one of the playlist's songs, after idbGetAll('playlists'),
\* after the idbPut of a child, after the idbDelete of the playlist
deletePlaylistResumes(i) ==
    LET c == pending[i]
    IN  /\ c.fn = "deletePlaylist"
        /\ Unblocked(i)
        /\ IF c.pc = "getItems" THEN
                LET inside == {s \in DOMAIN audio : audio[s].playlistId = c.a}
                IN  Continue(i, [c EXCEPT
                                   !.pc = IF inside = {} THEN "getPlaylists" ELSE "songs",
                                   !.todo = SetToSeq(inside),
                                   !.snap = [s \in inside |->
                                               [audio[s] EXCEPT !.playlistId = NULL]]],
                             audio, playlists)
           ELSE IF c.pc = "songs" THEN
                Continue(i, [c EXCEPT
                               !.pc = IF Tail(c.todo) = <<>> THEN "getPlaylists" ELSE "songs",
                               !.todo = Tail(c.todo)],
                         IF c.flag THEN Without(audio, Head(c.todo))
                         ELSE Put(audio, Head(c.todo), c.snap[Head(c.todo)]),
                         playlists)
           ELSE IF c.pc = "getPlaylists" THEN
                LET toReparent == {p \in DOMAIN playlists : playlists[p].parentId = c.a}
                    newParentId == IF IdbHas(playlists, c.a)
                                   THEN playlists[c.a].parentId ELSE NULL
                IN  Continue(i, [c EXCEPT
                                   !.pc = IF toReparent = {} THEN "delete" ELSE "children",
                                   !.todo = SetToSeq(toReparent),
                                   !.snap = [p \in toReparent |->
                                               [playlists[p] EXCEPT
                                                   !.parentId = newParentId,
                                                   !.updatedAt = now]]],
                             audio, playlists)
           ELSE IF c.pc = "children" THEN
                Continue(i, [c EXCEPT
                               !.pc = IF Tail(c.todo) = <<>> THEN "delete" ELSE "children",
                               !.todo = Tail(c.todo)],
                         audio, Put(playlists, Head(c.todo), c.snap[Head(c.todo)]))
           ELSE Return(i, RetUndefined, audio, Without(playlists, c.a))

\* cleanupEmptyPlaylists resumes: after the two idbGetAll, after an
\* idbDelete, after renderSongs
cleanupEmptyPlaylistsResumes(i) ==
    LET c == pending[i]
    IN  /\ c.fn = "cleanupEmptyPlaylists"
        /\ Unblocked(i)
        /\ IF c.pc = "read" THEN
                LET toDelete == CleanupPass(IdbGetAll(playlists), {}, audio, playlists)
                IN  Continue(i, [c EXCEPT
                                   !.pc = IF toDelete = {} THEN "render" ELSE "delete",
                                   !.todo = SetToSeq(toDelete)],
                             audio, playlists)
           ELSE IF c.pc = "delete" THEN
                Continue(i, [c EXCEPT
                               !.pc = IF Tail(c.todo) = <<>> THEN "render" ELSE "delete",
                               !.todo = Tail(c.todo)],
                         audio, Without(playlists, Head(c.todo)))
           ELSE /\ Rendered(audio, playlists, RetUndefined,
                            Op("cleanupEmptyPlaylists", NULL, NULL, FALSE))
                /\ pending' = RemoveAt(pending, i)
                /\ UNCHANGED <<now, nextPl, dragState, timers, listening, pointer,
                               presses, started, session, recordVars, aiVars>>

\* The request the i-th call awaits fails: idbGet, idbGetAll, idbPut and
\* idbDelete reject with req.error, the `await` throws, and as the helper
\* has no try/catch its promise rejects.  What the call has written so far
\* stays.
requestFails(i) ==
    /\ Unblocked(i)
    /\ Return(i, Result("rejected", NULL), audio, playlists)

\* ------------------------------------------------- overlapping calls
\* The library holds playlists 1 and 2 and a track; MaxOverlap helper calls
\* are started, each while the earlier ones are awaiting any of their
\* requests.
MaxOverlap == 2

InitRace ==
    /\ \E parent \in {NULL, 1}, place \in {NULL, 1, 2} :
          /\ playlists = createPlaylist(createPlaylist(EmptyStore, 1, <<>>, NULL, NULL, 1).pls,
                                        2, <<>>, NULL, parent, 1).pls
          /\ audio = Put(EmptyStore, 1001,
                         [AudioRecord(CHOOSE f \in LibraryFiles :
                                          computeFileId(f, TRUE) = 1001,
                                      NoMetadata, FALSE, 1, 1)
                             EXCEPT !.playlistId = place])
    /\ songsList = RenderList(audio, playlists)
    /\ now = 1
    /\ nextPl = 2
    /\ lastOp = Op("renderSongs", NULL, NULL, FALSE)
    /\ ret = RetUndefined
    /\ InitDragController
    /\ InitUrls
    /\ InitAi

NextRace ==
    \/ /\ Len(started.calls) < MaxOverlap
       /\ \E id \in IssuedIds, parent \in Targets :
             startCall("movePlaylist", "getPl", id, parent, FALSE)
    \/ /\ Len(started.calls) < MaxOverlap
       /\ \E target \in Targets :
             startCall("moveSongToPlaylist", "getSong", 1001, target, FALSE)
    \/ /\ Len(started.calls) < MaxOverlap
       /\ \E id \in IssuedIds, deleteSongs \in BOOLEAN :
             startCall("deletePlaylist", "getItems", id, NULL, deleteSongs)
    \/ /\ Len(started.calls) < MaxOverlap
       /\ startCall("cleanupEmptyPlaylists", "read", NULL, NULL, FALSE)
    \/ \E i \in DOMAIN pending : movePlaylistResumes(i)
    \/ \E i \in DOMAIN pending : moveSongToPlaylistResumes(i)
    \/ \E i \in DOMAIN pending : deletePlaylistResumes(i)
    \/ \E i \in DOMAIN pending : cleanupEmptyPlaylistsResumes(i)

SpecRace == InitRace /\ [][NextRace]_vars

\* -------------------------------------------------- failing requests
\* the same calls on a store whose requests may fail
NextFailure ==
    \/ NextRace
    \/ \E i \in DOMAIN pending : requestFails(i)

SpecFailure == InitRace /\ [][NextFailure]_vars

\* ------------------------------------------------------ opening the store
\* The script is loaded on any database; once initDB is through, playlists
\* are created, and the page may be loaded again.  A page load makes at
\* most MaxOpens open requests in the model.
MaxOpens == 3
MaxSessionPlaylists == 3

InitSession ==
    /\ playlists = EmptyStore
    /\ audio = EmptyStore
    /\ now = 1
    /\ nextPl = 0
    /\ songsList = <<>>
    /\ lastOp = Op("initDB", NULL, NULL, FALSE)
    /\ ret = RetUndefined
    /\ dragState = resetDragState
    /\ timers = {}
    /\ listening = FALSE
    /\ pending = <<>>
    /\ pointer = PointerUp
    /\ presses = 0
    /\ started = [au |-> <<>>, pls |-> <<>>, calls |-> <<>>]
    /\ \E database \in {"none", "stale", "newer"} :
          session = Session("open", database, 1, 0)
    /\ InitUrls
    /\ InitAi

NextSession ==
    \/ openFails
    \/ openSucceeds
    \/ session.opens < MaxOpens /\ deleteSucceeds
    \/ deleteFails
    \/ reload
    \/ /\ session.pc = "ready"
       /\ nextPl < MaxSessionPlaylists
       /\ \E parent \in Targets : onCreate(parent)

SpecSession == InitSession /\ [][NextSession]_vars

\* --------------------------------------------------------- drag and drop
\* The songs panel shows a library of one playlist with a track in it and a
\* track at the root.  MaxPresses presses are made; an endDrag may be
\* awaiting the store while the next press is made, MaxInFlight of them at
\* a time.
MaxPresses == 3
MaxInFlight == 1

InitDrag ==
    /\ playlists = createPlaylist(EmptyStore, 1, <<>>, NULL, NULL, 1).pls
    /\ \E f \in LibraryFiles, h \in LibraryFiles :
          /\ f.content.bytes < h.content.bytes
          /\ audio = Put(Put(EmptyStore, computeFileId(f, TRUE),
                             [AudioRecord(f, NoMetadata, FALSE, 1, 1)
                                 EXCEPT !.playlistId = 1]),
                         computeFileId(h, TRUE),
                         AudioRecord(h, NoMetadata, FALSE, 1, 1))
    /\ songsList = RenderList(audio, playlists)
    /\ now = 1
    /\ nextPl = 1
    /\ lastOp = Op("renderSongs", NULL, NULL, FALSE)
    /\ ret = RetUndefined
    /\ InitDragController
    /\ InitUrls
    /\ InitAi

Press == presses < MaxPresses /\ \E el \in DraggableElements : startPress(el)
Move == \E far \in BOOLEAN : maybeStartDrag(far)
Expire == \E h \in timers : longPressTimer(h)
Release ==
    \E target \in DropTargets :
        /\ Len(pending) + Len(endDragBranch(dragState, target)) <= MaxInFlight
        /\ endDrag(target)
Read == \E i \in DOMAIN pending : endDragReadsId(i)
Settle == \E i \in DOMAIN pending : endDragSettles(i)

NextDrag ==
    \/ Press
    \/ Move
    \/ Expire
    \/ Release
    \/ Read
    \/ Settle

SpecDrag == InitDrag /\ [][NextDrag]_vars

\* ====================================================== the properties
\* the parent of p in pls: NULL for a root and for a missing record
ParentOf(pls, p) == IF p \in DOMAIN pls THEN pls[p].parentId ELSE NULL

\* the playlist reached from p by following k parentId links
RECURSIVE Climb(_, _, _)
Climb(pls, p, k) == IF k = 0 THEN p ELSE Climb(pls, ParentOf(pls, p), k - 1)

\* a is reached from b by following one parentId link or more
Descendant(pls, b, a) ==
    \E k \in 1..Cardinality(DOMAIN pls) : b # NULL /\ Climb(pls, b, k) = a

\* the tracks assigned to p and the playlists inside p
TracksIn(au, p) == {s \in DOMAIN au : au[s].playlistId = p}
ChildrenIn(pls, p) == {c \in DOMAIN pls : pls[c].parentId = p}

\* C1: following parentId links from any playlist never comes back to it.
C1_Acyclic == \A p \in DOMAIN playlists : ~Descendant(playlists, p, p)

\* a playlist has just been moved into another one
C1_Witness ==
    /\ lastOp.op = "onMove"
    /\ ret.tag = "value"
    /\ lastOp.b # NULL
    /\ playlists[lastOp.a].parentId = lastOp.b
    /\ lastOp.b \in DOMAIN playlists

\* C3: every parentId is null or the id of a stored playlist, and every
\* playlistId is absent or the id of a stored playlist.
C3_ReferentialIntegrity ==
    /\ \A p \in DOMAIN playlists :
          playlists[p].parentId = NULL \/ playlists[p].parentId \in DOMAIN playlists
    /\ \A s \in DOMAIN audio :
          audio[s].playlistId = NULL \/ audio[s].playlistId \in DOMAIN playlists

\* C4: deletePlaylist(P, {deleteSongs: false}) on a stored P removes P, gives
\* P's former parentId to the playlists that were inside P, clears the
\* playlistId of the tracks that were in P and deletes no track.
C4_DeletionCollapse ==
    [][ (lastOp'.op = "onDelete" /\ ~lastOp'.flag /\ lastOp'.a \in DOMAIN playlists)
        => LET P == lastOp'.a
           IN  /\ P \notin DOMAIN playlists'
               /\ \A c \in ChildrenIn(playlists, P) :
                     /\ c \in DOMAIN playlists'
                     /\ playlists'[c].parentId = playlists[P].parentId
               /\ \A s \in TracksIn(audio, P) :
                     s \in DOMAIN audio' /\ audio'[s].playlistId = NULL
               /\ DOMAIN audio' = DOMAIN audio ]_vars

\* the second of three nested playlists was deleted keeping its songs: the
\* third is now inside the first and a track is at the root
C4_Witness ==
    /\ lastOp.op = "onDelete"
    /\ ~lastOp.flag
    /\ lastOp.a \notin DOMAIN playlists
    /\ \E c \in DOMAIN playlists :
          playlists[c].parentId \in DOMAIN playlists /\ lastOp.a < c
          /\ playlists[c].parentId < lastOp.a
    /\ \E s \in DOMAIN audio : audio[s].playlistId = NULL

\* C5: after cleanupEmptyPlaylists() has returned, no stored playlist has
\* zero tracks and zero child playlists.
C5_CleanupFixedPoint ==
    lastOp.op = "cleanupEmptyPlaylists"
    => \A p \in DOMAIN playlists :
          TracksIn(audio, p) # {} \/ ChildrenIn(playlists, p) # {}

\* C6: deletePlaylist deletes tracks only with deleteSongs: true, and then
\* exactly the tracks whose playlistId was the deleted playlist.
C6_DeleteSongsOptIn ==
    [][ lastOp'.op = "onDelete"
        => DOMAIN audio' = IF lastOp'.flag
                           THEN (DOMAIN audio) \ TracksIn(audio, lastOp'.a)
                           ELSE DOMAIN audio ]_vars

\* a playlist was deleted with its songs; a track in what was a child
\* playlist is still stored
C6_Witness ==
    /\ lastOp.op = "onDelete"
    /\ lastOp.flag
    /\ lastOp.a \notin DOMAIN playlists
    /\ Cardinality(DOMAIN audio) = 1
    /\ \E s \in DOMAIN audio : audio[s].playlistId \in DOMAIN playlists

\* C2: movePlaylist(P, B) on a stored P, with B = P or B a descendant of P,
\* returns null and changes no playlist record (no parentId, no updatedAt).
C2_CycleRejection ==
    [][ ( /\ lastOp'.op = "onMove"
          /\ lastOp'.a \in DOMAIN playlists
          /\ (lastOp'.b = lastOp'.a \/ Descendant(playlists, lastOp'.b, lastOp'.a)) )
        => (playlists' = playlists /\ ret' = RetNull) ]_vars

\* a playlist was not moved into its child's child, later than its last
\* update
C2_Witness ==
    /\ lastOp.op = "onMove"
    /\ ret = RetNull
    /\ lastOp.a \in DOMAIN playlists
    /\ lastOp.b \in DOMAIN playlists
    /\ ParentOf(playlists, ParentOf(playlists, lastOp.b)) = lastOp.a
    /\ playlists[lastOp.a].updatedAt < now

\* C7: moveSongToPlaylist(T, P) on a stored track and playlist makes T's
\* cover the cover of P iff P had none and T has one; a playlist that has a
\* cover keeps it through every moveSongToPlaylist.
C7_CoverInheritance ==
    [][ lastOp'.op = "dropSong"
        => /\ (lastOp'.a \in DOMAIN audio /\ lastOp'.b \in DOMAIN playlists)
              => LET T == lastOp'.a
                     P == lastOp'.b
                 IN  /\ P \in DOMAIN playlists'
                     /\ playlists'[P].cover =
                           IF playlists[P].cover = NULL /\ audio[T].cover # NULL
                           THEN audio[T].cover ELSE playlists[P].cover
           /\ \A p \in (DOMAIN playlists) \cap (DOMAIN playlists') :
                 playlists[p].cover # NULL => playlists'[p].cover = playlists[p].cover
      ]_vars

\* a track with a picture was moved into a playlist that has the cover of
\* another track
C7_Witness ==
    /\ lastOp.op = "dropSong"
    /\ ret.tag = "value"
    /\ lastOp.b \in DOMAIN playlists
    /\ audio[lastOp.a].cover # NULL
    /\ playlists[lastOp.b].cover # NULL
    /\ playlists[lastOp.b].cover # audio[lastOp.a].cover

\* the stored tracks whose file has the given bytes
TracksOfContent(au, content) == {s \in DOMAIN au : au[s].file.content = content}

\* the id s of a stored file and the id of the file now imported are both
\* the hash, or both the name, size and modification time, and these agree
SameDerivation(s, stored, file, hashOk) ==
    IF hashOk THEN IsSha1Id(s)
    ELSE /\ ~IsSha1Id(s)
         /\ stored.name = file.name
         /\ Size(stored) = Size(file)
         /\ stored.lastModified = file.lastModified

\* C8 as stated: processAudioFile on content that has been imported before
\* yields the id of the earlier import, leaves exactly one track with that
\* content, and that track holds what the second import computed.
C8_IdempotentImport ==
    [][ lastOp'.op = "processAudioFile"
        => LET in == lastOp'.b
               earlier == TracksOfContent(audio, in.file.content)
           IN  earlier # {}
               => /\ earlier = {lastOp'.a}
                  /\ TracksOfContent(audio', in.file.content) = {lastOp'.a}
                  /\ audio'[lastOp'.a] =
                        AudioRecord(in.file, in.initialMetadata, in.thumbOk, in.g, now)
      ]_vars

\* C8, amended: the same holds when the earlier imports of that content and
\* this one all computed the SHA-1, or all fell back to the same name, size
\* and modification time.
C8_IdempotentImportSameDerivation ==
    [][ lastOp'.op = "processAudioFile"
        => LET in == lastOp'.b
               earlier == TracksOfContent(audio, in.file.content)
           IN  ( /\ earlier # {}
                 /\ \A s \in earlier :
                       SameDerivation(s, audio[s].file, in.file, lastOp'.flag) )
               => /\ earlier = {lastOp'.a}
                  /\ TracksOfContent(audio', in.file.content) = {lastOp'.a}
                  /\ audio'[lastOp'.a] =
                        AudioRecord(in.file, in.initialMetadata, in.thumbOk, in.g, now)
      ]_vars

\* the same bytes were imported again, hashed, under another name, later and
\* with a title from the caller: one track, holding the second import
C8_Witness ==
    /\ lastOp.op = "processAudioFile"
    /\ lastOp.flag
    /\ lastOp.b.known
    /\ lastOp.b.initialMetadata = CallerMetadata
    /\ lastOp.b.file.name = FileNames[3]
    /\ DOMAIN audio = {lastOp.a}
    /\ audio[lastOp.a].title = <<"t">>
    /\ audio[lastOp.a].createdAt = MaxTime

\* C9: in the list that renderSongs builds, among the children of the root
\* and of every playlist, no track comes before a playlist, and two
\* playlists, or two tracks, are in descending order of createdAt.
C9_ProjectionOrdering ==
    \A i, j \in DOMAIN songsList :
        ( /\ i < j
          /\ songsList[i].parent = songsList[j].parent
          /\ songsList[i].depth = songsList[j].depth )
        => /\ ~(songsList[i].type = "song" /\ songsList[j].type = "playlist")
           /\ songsList[i].type = songsList[j].type
              => songsList[i].createdAt >= songsList[j].createdAt

\* a playlist holds two playlists of different age and three tracks created
\* at three times, the oldest track neither first nor last in key order
C9_Witness ==
    /\ lastOp.op = "renderSongs"
    /\ Len(songsList) = 6
    /\ \A i \in 1..3 : songsList[i].type = "playlist"
    /\ \A i \in 4..6 : songsList[i].type = "song" /\ songsList[i].depth = 1
    /\ songsList[2].depth = 1 /\ songsList[3].depth = 1
    /\ songsList[2].createdAt > songsList[3].createdAt
    /\ songsList[4].createdAt > songsList[5].createdAt
    /\ songsList[5].createdAt > songsList[6].createdAt
    /\ songsList[4].id < songsList[6].id
    /\ songsList[6].id < songsList[5].id

\* C10: the release of a press during which dragState.active did not become
\* true (its timer did not expire, the pointer did not move more than 6 px)
\* starts none of createPlaylist, moveSongToPlaylist, movePlaylist and
\* cleanupEmptyPlaylists and changes no record, whatever came before.
C10_ClickMutatesNothing ==
    [][ ( /\ pointer.down
          /\ ~pointer'.down
          /\ ~pointer.expired
          /\ ~pointer.moved
          /\ ~pointer.began )
        => (pending' = pending /\ audio' = audio /\ playlists' = playlists) ]_vars

\* C11: when the endDrag of a track A released over another track B has
\* run to its end, exactly one playlist is new; its name is the first 12
\* characters of A's title, ' + ', and the first 12 characters of B's; its
\* parentId is the playlistId B had (null at the root); A and B both have
\* the new playlist's id as playlistId, and the playlist is in the store
\* after the cleanupEmptyPlaylists that ends the call.
C11_TrackOnTrackMerge ==
    [][ \A i \in DOMAIN pending :
          ( /\ pending[i].branch = "group"
            /\ pending[i].pc = "run"
            /\ pending' = RemoveAt(pending, i)
            /\ lastOp'.op = "endDrag" )
          => LET A == pending[i].dragged
                 B == pending[i].b
                 pl == nextPl + 1
             IN  /\ A \in DOMAIN audio /\ B \in DOMAIN audio
                 /\ DOMAIN playlists' \ DOMAIN playlists = {pl}
                 /\ playlists'[pl].name
                      = Text(Slice(audio[A].title, 12) \o <<" ", "+", " ">>
                             \o Slice(audio[B].title, 12))
                 /\ playlists'[pl].parentId = audio[B].playlistId
                 /\ audio'[A].playlistId = pl
                 /\ audio'[B].playlistId = pl ]_vars

\* C12: a createPlaylist call whose name is missing or blank stores the
\* name 'Playlist N', N being the number of playlists in the store when the
\* call is made plus one; so three such calls in a row on an empty store
\* store 'Playlist 1', 'Playlist 2', 'Playlist 3'.
C12_DefaultNaming ==
    [][ (lastOp'.op = "createPlaylist" /\ Trim(lastOp'.b) = <<>>)
        => /\ lastOp'.a \in DOMAIN playlists'
           /\ playlists'[lastOp'.a].name
                = DefaultName(Cardinality(DOMAIN playlists) + 1) ]_vars

\* three createPlaylist calls on the empty store, nothing deleted, the last
\* of them without a name: 'Playlist 1', 'Playlist 2', 'Playlist 3'
C12_Witness ==
    /\ lastOp.op = "createPlaylist"
    /\ Trim(lastOp.b) = <<>>
    /\ DOMAIN playlists = {1, 2, 3}
    /\ \A k \in 1..3 : playlists[k].name = DefaultName(k)

\* C13: renamePlaylist, updatePlaylist and movePlaylist called with the id
\* of no playlist, and moveSongToPlaylist called with the id of no track or
\* with a target that is not null and is the id of no playlist, return null
\* and leave every record of both stores as it was.
C13_MissingIdSafety ==
    [][ ( \/ /\ lastOp'.op \in {"renamePlaylist", "updatePlaylist", "movePlaylist"}
              /\ lastOp'.a \notin DOMAIN playlists
          \/ /\ lastOp'.op = "moveSongToPlaylist"
              /\ \/ lastOp'.a \notin DOMAIN audio
                 \/ lastOp'.b # NULL /\ lastOp'.b \notin DOMAIN playlists )
        => (ret' = RetNull /\ audio' = audio /\ playlists' = playlists) ]_vars

\* updatePlaylist has been called with the id of a deleted playlist while
\* another playlist and a track are in the stores
C13_Witness ==
    /\ lastOp.op = "updatePlaylist"
    /\ lastOp.a \notin DOMAIN playlists
    /\ ret = RetNull
    /\ playlists # EmptyStore
    /\ audio # EmptyStore

\* C14: movePlaylist(P, X) with P in the store and X not null and the id of
\* no playlist is rejected: it returns null and P's parentId (its whole
\* record) stays as it was.
C14_MoveToMissingParentRejected ==
    [][ ( /\ lastOp'.op = "movePlaylist"
          /\ lastOp'.a \in DOMAIN playlists
          /\ lastOp'.b # NULL
          /\ lastOp'.b \notin DOMAIN playlists )
        => (ret' = RetNull /\ playlists' = playlists) ]_vars

\* C15: every endDrag that took a graph-operation branch at the release
\* runs that branch to its end: the mutation (for a grouping, createPlaylist
\* and both moves), then cleanupEmptyPlaylists, whose deletions are of
\* playlists that hold no track once the mutation is done, then a
\* renderSongs that shows the stores as the cleanup left them.
C15_ReleaseSequence ==
    [][ \A i \in DOMAIN pending :
          ( /\ pending[i].pc = "run"
            /\ pending' = RemoveAt(pending, i)
            /\ lastOp'.op = "endDrag" )
          => /\ ~lastOp'.flag
             /\ \A p \in DOMAIN playlists \ DOMAIN playlists' : TracksIn(audio', p) = {}
             /\ songsList' = RenderList(audio', playlists') ]_vars

\* C16: while an endDrag is awaiting the store (its move, cleanup and
\* rendering are not all done), no press starts, dragState.active does not
\* become true, and no other endDrag reaches its own graph operation.
C16_GesturesDoNotOverlap ==
    [][ pending # <<>>
        => /\ presses' = presses
           /\ dragState'.active => dragState.active
           /\ Len(pending') <= Len(pending) ]_vars

\* C17: with movePlaylist calls in flight at the same time, their reads and
\* writes interleaved in any way, no two playlists are ever each other's
\* ancestors.
C17_AcyclicUnderInterleaving ==
    \A a \in DOMAIN playlists, b \in DOMAIN playlists :
        ~(Descendant(playlists, a, b) /\ Descendant(playlists, b, a))

\* the stores after the call c (a record of `started.calls`) has run alone
\* on the stores st
RunAlone(c, st) ==
    IF c.op = "movePlaylist"
    THEN [au |-> st.au, pls |-> movePlaylist(st.pls, c.a, c.b, now).pls]
    ELSE IF c.op = "moveSongToPlaylist"
    THEN LET m == moveSongToPlaylist(st.au, st.pls, c.a, c.b, now)
         IN  [au |-> m.au, pls |-> m.pls]
    ELSE IF c.op = "deletePlaylist"
    THEN LET d == deletePlaylist(st.au, st.pls, c.a, c.flag, now)
         IN  [au |-> d.au, pls |-> d.pls]
    ELSE [au |-> st.au, pls |-> cleanupEmptyPlaylists(st.au, st.pls)]

\* C18: when two store-mutating calls have overlapped and both are done,
\* the stores are what running the two one after the other, in one of the
\* two orders, leaves.
C18_NoInterleavedPartialMutation ==
    (pending = <<>> /\ Len(started.calls) = 2)
    => LET st == [au |-> started.au, pls |-> started.pls]
           c1 == started.calls[1]
           c2 == started.calls[2]
           now12 == RunAlone(c2, RunAlone(c1, st))
           now21 == RunAlone(c1, RunAlone(c2, st))
       IN  \/ audio = now12.au /\ playlists = now12.pls
           \/ audio = now21.au /\ playlists = now21.pls

\* C19: in one page load initDB deletes the database at most once and
\* calls indexedDB.open at most twice (the first attempt and one retry).
C19_BoundedSelfHealing == session.deletes <= 1 /\ session.opens <= 2

\* C20: no call of a playlist helper ends with its promise rejected: a
\* request that fails inside it is caught there and the call resolves (to
\* null, or to nothing).
C20_StoreFailureIsCaught == ret.tag # "rejected"

\* C21: processAudioFile stores, for the title, the first that is present
\* of the caller's title, the TIT2 text of the file, the title derived from
\* the file name, and 'UNKNOWN'; for the artist, the first that is present
\* of the caller's artist, the caller's author, the TPE1 text, the artist
\* derived from the file name, and 'UNNAMED'.  A file 'A - T.m' without tags
\* that the caller says nothing about is stored with title 'T', artist 'A'.
C21_MetadataMergePriority ==
    [][ lastOp'.op = "processAudioFile"
        => LET in == lastOp'.b
               im == in.initialMetadata
               tags == in.file.content
               filenameMeta == deriveMetadataFromFilename(in.file.name)
               stored == audio'[lastOp'.a]
           IN  /\ stored.title =
                     OrElse(im.title,
                       OrElse(tags.tit2, OrElse(filenameMeta.title, UNKNOWN)))
               /\ stored.artist =
                     OrElse(im.artist,
                       OrElse(im.author,
                         OrElse(tags.tpe1, OrElse(filenameMeta.artist, UNNAMED))))
      ]_vars

\* C22: the setting lastCoverUrl is never a URL that starts with 'blob:':
\* it is absent or a gradient that generateRandomGradient returned.
C22_LastCoverUrlIsNoBlobUrl ==
    \/ settings.lastCoverUrl = NoUrl
    \/ StartsWith(settings.lastCoverUrl, "linear-gradient")

\* a track without cover was shown and its gradient saved, then the cover
\* of another track was shown on the record through an object URL
C22_Witness ==
    /\ lastOp.op = "loadSong"
    /\ StartsWith(backgroundImage, "blob:")
    /\ backgroundImage \in objectUrls
    /\ StartsWith(settings.lastCoverUrl, "linear-gradient")

\* C23: every object URL that has been created and not revoked belongs to
\* something that is still there: the list as rendered last, the record
\* cover, the current audio element, the open edit dialog.  So the live
\* URLs never outnumber these.
C23_NoLeakedObjectUrls == LeakedUrls = {}

\* C24: the URL in currentRecordCoverUrl is never in songCoverObjectUrls,
\* and a step that leaves currentRecordCoverUrl as it is (a render, the
\* panel closing) does not revoke that URL.
C24_RecordCoverTrackedApart ==
    [][ /\ currentRecordCoverUrl' \notin songCoverObjectUrls'
        /\ ( /\ currentRecordCoverUrl' = currentRecordCoverUrl
             /\ currentRecordCoverUrl \in objectUrls )
           => currentRecordCoverUrl \in objectUrls'
      ]_vars

\* the panel was closed while the record showed the cover of a track that
\* is in the list: the URLs of the list are revoked, the record's is live
C24_Witness ==
    /\ lastOp.op = "clearSongObjectUrls"
    /\ currentRecordCoverUrl \in objectUrls
    /\ backgroundImage = currentRecordCoverUrl
    /\ \E i \in DOMAIN songsList :
          songsList[i].type = "song" /\ audio[songsList[i].id].cover # NULL

\* C25: a deletion of a playlist, a move of a playlist, a deletion of a
\* track or a drop of a track leaves no playlist without tracks and without
\* child playlists that had a track or a child playlist before it:
\* cleanupEmptyPlaylists has run before the handler ends.
C25_CleanupFollowsEveryMutation ==
    [][ lastOp'.op \in {"onDelete", "onMove", "deleteSong", "dropSong"}
        => \A p \in DOMAIN playlists' :
              ( /\ TracksIn(audio', p) = {}
                /\ ChildrenIn(playlists', p) = {} )
              => /\ p \in DOMAIN playlists
                 /\ TracksIn(audio, p) = {}
                 /\ ChildrenIn(playlists, p) = {}
      ]_vars

\* C26: a gradient that a stored track has is never replaced: whatever
\* happens to the track (a render, a click, a move, an import of the same
\* content again), as long as it is stored its gradient stays the same.
C26_GradientIsPermanent ==
    [][ \A s \in (DOMAIN audio) \cap (DOMAIN audio') :
           audio[s].gradient # NULL => audio'[s].gradient = audio[s].gradient
      ]_vars

Depth(pls, p) ==
    CHOOSE k \in 0..Cardinality(DOMAIN pls) :
        /\ Climb(pls, p, k + 1) = NULL
        /\ \A j \in 1..k : Climb(pls, p, j) # NULL

\* C28: deletePlaylist(P) on a stored P takes exactly one level out of P's
\* subtree: every playlist below P survives one level higher, the children
\* of P under P's former parent and the deeper ones under the parent they
\* had, so that the ancestry among them is unchanged; every other playlist
\* keeps its parentId and its depth; every track that was not in P stays in
\* the store with its playlistId.
C28_DeletionCollapsesOneLevel ==
    [][ (lastOp'.op = "onDelete" /\ lastOp'.a \in DOMAIN playlists)
        => LET P == lastOp'.a
               below == {d \in DOMAIN playlists : Descendant(playlists, d, P)}
           IN  /\ DOMAIN playlists' = (DOMAIN playlists) \ {P}
               /\ \A d \in below :
                     /\ Depth(playlists', d) = Depth(playlists, d) - 1
                     /\ playlists'[d].parentId =
                          IF playlists[d].parentId = P THEN playlists[P].parentId
                          ELSE playlists[d].parentId
                     /\ \A c \in below :
                           Descendant(playlists', d, c) <=> Descendant(playlists, d, c)
               /\ \A q \in (DOMAIN playlists) \ (below \cup {P}) :
                     /\ playlists'[q].parentId = playlists[q].parentId
                     /\ Depth(playlists', q) = Depth(playlists, q)
               /\ \A s \in DOMAIN audio :
                     audio[s].playlistId # P
                     => s \in DOMAIN audio' /\ audio'[s].playlistId = audio[s].playlistId
      ]_vars

\* the second of three nested playlists was deleted together with its
\* songs: the third is now inside the first, and a track that was in one of
\* the two is still there
C28_Witness ==
    /\ lastOp.op = "onDelete"
    /\ lastOp.flag
    /\ lastOp.a \notin DOMAIN playlists
    /\ \E c \in DOMAIN playlists :
          /\ playlists[c].parentId \in DOMAIN playlists
          /\ playlists[c].parentId < lastOp.a
          /\ lastOp.a < c
          /\ Depth(playlists, c) = 1
          /\ \E s \in DOMAIN audio : audio[s].playlistId \in {c, playlists[c].parentId}

\* C29: dragState.active becomes true only while a press is in progress, in
\* the step in which the timer of that press expires or the pointer is for
\* the first time more than 6 px from the place of the press, and only once
\* in a press; a timer or a move that finds dragState.active true leaves
\* dragState as it is.
C29_DragStartsOncePerPress ==
    [][ /\ (~dragState.active /\ dragState'.active)
           => /\ pointer.down
              /\ ~pointer.began
              /\ \/ ~pointer.expired /\ pointer'.expired
                 \/ ~pointer.moved /\ pointer'.moved
        /\ ( /\ dragState.active
             /\ pending' = pending
             /\ presses' = presses
             /\ pointer'.down = pointer.down )
           => dragState' = dragState
      ]_vars

\* C30: dragState.active is true only while a press is in progress, and
\* when no press is in progress no long-press timer is pending.
C30_NoDragWithoutPress ==
    ~pointer.down => (~dragState.active /\ timers = {})

\* the call that the table of drag resolutions gives for the item el
\* released over target, as a sequence of at most one awaiting call
TableCall(el, target) ==
    IF target = Outside THEN <<>>
    ELSE IF el.type = "song"
    THEN <<Awaiting("moveSong", "run", el.id, el.id,
                    IF target.type = "playlist" THEN target.id ELSE NULL, NULL)>>
    ELSE <<Awaiting("movePlaylist", "run", el.id, el.id,
                    IF target.type = "playlist" THEN target.id ELSE NULL, NULL)>>

\* C31: a release while dragState.active is true starts exactly the call
\* that the table gives for the pressed item and the place of the release:
\* a track over a playlist header moveSongToPlaylist(track, playlist), a
\* track over the list outside every item moveSongToPlaylist(track, null),
\* a playlist over another playlist's header movePlaylist(dragged,
\* target), a playlist over the list outside every item
\* movePlaylist(dragged, null), and no call outside the list.
C31_DragResolutionTable ==
    [][ \A target \in DropTargets :
          ( /\ dragState.active
            /\ endDrag(target)
            /\ \/ target \in {TheList, Outside}
               \/ target.type = "playlist" /\ target # pointer.el )
          => pending' = pending \o TableCall(pointer.el, target)
      ]_vars

\* C32: at no time do two click handlers of generateButton have a request
\* to /api/generate-music in flight or a processGeneratedMusic running.
C32_OneGenerationInFlight == Cardinality(Generating) <= 1

\* C33: 'Move Out One Level' on a playlist gives it the parentId of the
\* playlist it was in: a playlist in B, with B in A, is in A afterwards,
\* and a playlist in a root playlist is at the root.
C33_MoveOutOneLevel ==
    [][ \A id \in DOMAIN playlists :
          handleAction("move-up", id, TRUE)
          => playlists'[id].parentId = ParentOf(playlists, playlists[id].parentId)
      ]_vars

\* no playlist is inside itself, every parentId names a stored playlist or
\* is null, and so does every playlistId
WellFormed(au, pls) ==
    /\ \A p \in DOMAIN pls : ~Descendant(pls, p, p)
    /\ \A p \in DOMAIN pls : pls[p].parentId \in (DOMAIN pls) \cup {NULL}
    /\ \A s \in DOMAIN au : au[s].playlistId \in (DOMAIN pls) \cup {NULL}

\* the playlist whose content holds the i-th item of the list: the nearest
\* playlist item before it that is one level higher, NULL for the list
\* itself
ContainerOf(list, i) ==
    IF list[i].depth = 0 THEN NULL
    ELSE LET above == {j \in 1..(i - 1) : /\ list[j].type = "playlist"
                                          /\ list[j].depth = list[i].depth - 1}
         IN  IF above = {} THEN -1
             ELSE list[CHOOSE j \in above : \A k \in above : k <= j].id

\* the places of the item of the given type and id in the list
ItemsOf(list, type, id) ==
    {i \in DOMAIN list : list[i].type = type /\ list[i].id = id}

\* C34: when the stores are acyclic and have no dangling parentId or
\* playlistId, the list that renderSongs built has one item for every
\* stored playlist and one for every stored track and no other item, every
\* playlist item in the content of the playlist named by its parentId and
\* every track item in the content of the playlist named by its
\* playlistId, or in the list itself when that is null.
C34_ProjectionComplete ==
    (lastOp.op = "renderSongs" /\ WellFormed(audio, playlists))
    => /\ Len(songsList) = Cardinality(DOMAIN playlists) + Cardinality(DOMAIN audio)
       /\ \A p \in DOMAIN playlists :
             /\ Cardinality(ItemsOf(songsList, "playlist", p)) = 1
             /\ \A i \in ItemsOf(songsList, "playlist", p) :
                   /\ ContainerOf(songsList, i) = playlists[p].parentId
                   /\ songsList[i].depth = Depth(playlists, p)
       /\ \A s \in DOMAIN audio :
             /\ Cardinality(ItemsOf(songsList, "song", s)) = 1
             /\ \A i \in ItemsOf(songsList, "song", s) :
                   ContainerOf(songsList, i) = audio[s].playlistId

\* renderSongs has built the list of three playlists nested one in the
\* other with the tracks in the innermost
C34_Witness ==
    /\ lastOp.op = "renderSongs"
    /\ WellFormed(audio, playlists)
    /\ \E p \in DOMAIN playlists :
          /\ Depth(playlists, p) = 2
          /\ TracksIn(audio, p) # {}
          /\ \A i \in ItemsOf(songsList, "song", CHOOSE s \in TracksIn(audio, p) : TRUE) :
                songsList[i].depth = 3

\* C35: processAudioFile on a file whose id is already stored puts a new
\* record in the place of the old one: the track has no playlistId
\* afterwards and its createdAt is the time of this import.
C35_ReimportOverwrites ==
    [][ \A f \in ReimportFiles :
          ( /\ IdbHas(audio, computeFileId(f, TRUE))
            /\ processAudioFile(f, NoMetadata, TRUE, FALSE, 1) )
          => /\ audio'[computeFileId(f, TRUE)].playlistId = NULL
             /\ audio'[computeFileId(f, TRUE)].createdAt = now
             /\ audio'[computeFileId(f, TRUE)] = AudioRecord(f, NoMetadata, FALSE, 1, now)
      ]_vars

\* a track with a picture has been imported again later than the first
\* time: it is at the root with the new time, and the playlist that took
\* its cover when the track was dropped on it holds no track
C35_Witness ==
    /\ lastOp.op = "processAudioFile"
    /\ lastOp.b.known
    /\ audio[lastOp.a].playlistId = NULL
    /\ audio[lastOp.a].createdAt = MaxTime
    /\ \E p \in DOMAIN playlists :
          /\ playlists[p].createdAt < MaxTime
          /\ playlists[p].cover # NULL
          /\ playlists[p].cover = audio[lastOp.a].cover
          /\ TracksIn(audio, p) = {}

\* C36: a movePlaylist(P, X) that returns the playlist has written P's
\* record only, with parentId X and updatedAt the time of the call: every
\* other playlist record and every track record is as before, so the
\* playlists and tracks below P are below it still.
C36_MoveChangesOneRecord ==
    [][ (lastOp'.op = "onMove" /\ ret'.tag = "value")
        => LET id == lastOp'.a
               parent == lastOp'.b
           IN  /\ playlists' = [playlists EXCEPT ![id].parentId = parent,
                                                 ![id].updatedAt = now]
               /\ audio' = audio
               /\ \A d \in DOMAIN playlists :
                     Descendant(playlists, d, id) => Descendant(playlists', d, id)
      ]_vars

\* a playlist with a playlist inside that holds a track has been moved
\* into another playlist, later than it was created
C36_Witness ==
    /\ lastOp.op = "onMove"
    /\ ret.tag = "value"
    /\ lastOp.b \in DOMAIN playlists
    /\ playlists[lastOp.a].parentId = lastOp.b
    /\ playlists[lastOp.a].updatedAt > playlists[lastOp.a].createdAt
    /\ \E d \in DOMAIN playlists :
          /\ playlists[d].parentId = lastOp.a
          /\ TracksIn(audio, d) # {}

\* C37: a release while dragState.active is true over the element that was
\* pressed, which is still in the list, starts the move of the pressed item
\* to the root: moveSongToPlaylist(track, null) for a song item,
\* movePlaylist(playlist, null) for a playlist header.  So it is after a
\* long press without a move.
C37_ReleaseOverItselfMovesToRoot ==
    [][ ( /\ dragState.active
          /\ pointer.el \in DraggableElements
          /\ endDrag(pointer.el) )
        => pending' = pending \o TableCall(pointer.el, TheList)
      ]_vars

\* C38: an endDrag that finishes has moved or merged the track that
\* dragState.id named at its own release, also when a press was made while
\* it awaited the store; and when a press is in progress as it finishes,
\* dragState keeps the type, the id and the long-press timer that
\* startPress stored for that press.
C38_ResolutionKeepsToItsGesture ==
    [][ \A i \in DOMAIN pending :
          ( /\ pending[i].pc = "run"
            /\ pending' = RemoveAt(pending, i)
            /\ lastOp'.op = "endDrag" )
          => /\ pending[i].a = pending[i].dragged
             /\ pointer.down
                => /\ dragState'.type = dragState.type
                   /\ dragState'.id = dragState.id
                   /\ dragState'.longPressTimer = dragState.longPressTimer
      ]_vars

\* C39: when every renderSongs call that was made has run to its end, also
\* calls that were in flight at once, #songs-list holds one item for each
\* track and one for each playlist of the stores, and no item twice.
C39_OverlappingRendersDoNotDuplicate ==
    (pending = <<>> /\ lastOp.op = "renderSongs")
    => /\ \A p \in DOMAIN playlists : Cardinality(ItemsOf(songsList, "playlist", p)) = 1
       /\ \A s \in DOMAIN audio : Cardinality(ItemsOf(songsList, "song", s)) = 1

====
